---------------------------- MODULE Spec2Model ----------------------------
(***************************************************************************)
(* A model of the puzzle generator scripts/generate-puzzles.mjs: the word  *)
(* normalizer, the anagram-bucket index, getNextWords, isSolvable,         *)
(* buildChain, the seeded generator mulberry32 and generatePuzzles.        *)
(*                                                                         *)
(* A string is the sequence of its UTF-16 code units (65 is "A").  A       *)
(* 32-bit unsigned integer is the pair <<hi, lo>> of its 16-bit halves,    *)
(* because the generator's arithmetic is modulo 2^32.                      *)
(***************************************************************************)
EXTENDS Integers, Sequences, FiniteSets, TLC

(***************************************************************************)
(* 32-bit arithmetic                                                       *)
(***************************************************************************)
\* 2^16 and 2^8: the sizes of a half and of a limb of a 32-bit value
Half == 256 * 256

Byte == 16 * 16

\* TRUE of every value.  An assignment in the code computes its right-hand
\* side at once; a loop of the model asks this of what it carries at each
\* turn, so that the value is computed at that turn and not when the loop ends.
Computed(value) == value = value

Pow2(k) == 2 ^ k

\* Bitwise operations on 16-bit halves: the low and the high half of the
\* bits apart, down to single bits.
RECURSIVE Xor16(_, _, _)
Xor16(x, y, bits) ==
  IF bits = 1 THEN (x + y) % 2
  ELSE LET half == bits \div 2
       IN  Xor16(x % Pow2(half), y % Pow2(half), half)
           + Pow2(half) * Xor16(x \div Pow2(half), y \div Pow2(half), half)

RECURSIVE Or16(_, _, _)
Or16(x, y, bits) ==
  IF bits = 1 THEN (IF x = 1 \/ y = 1 THEN 1 ELSE 0)
  ELSE LET half == bits \div 2
       IN  Or16(x % Pow2(half), y % Pow2(half), half)
           + Pow2(half) * Or16(x \div Pow2(half), y \div Pow2(half), half)

\* a ^ b on 32-bit values
Xor32(a, b) == <<Xor16(a[1], b[1], 16), Xor16(a[2], b[2], 16)>>

\* a | b on 32-bit values
Or32(a, b) == <<Or16(a[1], b[1], 16), Or16(a[2], b[2], 16)>>

\* a >>> k for 0 < k < 16
Shr32(a, k) ==
  <<a[1] \div Pow2(k),
    (a[2] \div Pow2(k)) + (a[1] % Pow2(k)) * Pow2(16 - k)>>

\* (a + b) modulo 2^32
Add32(a, b) ==
  LET lo == a[2] + b[2]
  IN  <<(a[1] + b[1] + lo \div Half) % Half, lo % Half>>

\* the full 32-bit product of two 16-bit values, by 8-bit limbs
Mul16(x, y) ==
  LET x0  == x % Byte
      x1  == x \div Byte
      y0  == y % Byte
      y1  == y \div Byte
      mid == x1 * y0 + x0 * y1
      low == x0 * y0 + (mid % Byte) * Byte
  IN  <<x1 * y1 + mid \div Byte + low \div Half, low % Half>>

\* Math.imul(a, b): the low 32 bits of the product
Imul(a, b) ==
  LET p == Mul16(a[2], b[2])
  IN  <<(p[1] + Mul16(a[1], b[2])[2] + Mul16(a[2], b[1])[2]) % Half, p[2]>>

\* a small non-negative integer as a 32-bit value
U32(n) == <<n \div Half, n % Half>>

(***************************************************************************)
(* stringToSeed and mulberry32                                             *)
(***************************************************************************)
\* the hash with the multiplier 33
RECURSIVE stringToSeedFrom33(_, _, _)
stringToSeedFrom33(value, i, seed) ==
  IF Computed(seed) /\ i > Len(value) THEN seed
  ELSE stringToSeedFrom33(value, i + 1,
                          Add32(Imul(seed, U32(33)), U32(value[i])))

\* stringToSeed(value): seed = (seed * 31 + charCode) >>> 0 for each character.
\* seed * 31 + charCode is below 2^53, so the double arithmetic is exact and
\* >>> 0 reduces it modulo 2^32.
RECURSIVE stringToSeedFrom(_, _, _)
stringToSeedFrom(value, i, seed) ==
  IF Computed(seed) /\ i > Len(value) THEN seed
  ELSE stringToSeedFrom(value, i + 1,
                        Add32(Imul(seed, U32(31)), U32(value[i])))

stringToSeed(value) == stringToSeedFrom(value, 1, U32(0))

\* the increment 0x6d2b79f5 of mulberry32
Increment == <<27947, 31221>>

\* One call of the closure random() of mulberry32 on the generator state
\* `seed`: the new state and the numerator u of the returned double u / 2^32.
\* The state is kept modulo 2^32: the closure's seed is a double that grows by
\* 0x6d2b79f5 per call and is only ever read through ToInt32.
\* t = Math.imul(t ^ (t >>> 15), t | 1), for t the state after the increment
MixFirst(t) == Imul(Xor32(t, Shr32(t, 15)), Or32(t, U32(1)))

\* t ^= t + Math.imul(t ^ (t >>> 7), t | 61)
MixSecond(t) == Xor32(t, Add32(t, Imul(Xor32(t, Shr32(t, 7)), Or32(t, U32(61)))))

\* ((t ^ (t >>> 14)) >>> 0): the numerator of the value returned
MixLast(t) == Xor32(t, Shr32(t, 14))

RandomFrom(s) ==
  LET first  == MixFirst(s)
      second == MixSecond(first)
  IN  CASE Computed(s) /\ Computed(first) /\ Computed(second) ->
             [seed |-> s, value |-> MixLast(second)]

random(seed) == RandomFrom(Add32(seed, Increment))

\* Math.floor((u / 2^32) * n) for a draw with numerator u and a count n below
\* 2^15: u * n is below 2^53, so the product and the floor are exact.
FloorMul(u, n) == (u[1] * n + (u[2] * n) \div Half) \div Half

(***************************************************************************)
(* Dates                                                                   *)
(***************************************************************************)
IsLeapYear(y) == (y % 4 = 0 /\ y % 100 # 0) \/ y % 400 = 0

DaysInMonth(y, m) ==
  IF m = 2 THEN (IF IsLeapYear(y) THEN 29 ELSE 28)
  ELSE IF m \in {4, 6, 9, 11} THEN 30 ELSE 31

\* date.setDate(day) for a day past the end of the month rolls over into the
\* following months (and years).
RECURSIVE SetDate(_, _)
SetDate(date, day) ==
  IF day <= DaysInMonth(date.y, date.m) THEN [date EXCEPT !.d = day]
  ELSE LET rest == day - DaysInMonth(date.y, date.m)
       IN  IF date.m = 12 THEN SetDate([y |-> date.y + 1, m |-> 1, d |-> 1], rest)
           ELSE SetDate([y |-> date.y, m |-> date.m + 1, d |-> 1], rest)

\* the decimal digits of a natural number, as character codes
RECURSIVE Digits(_)
Digits(n) ==
  IF n < 10 THEN <<48 + n>> ELSE Digits(n \div 10) \o <<48 + (n % 10)>>

\* String(n).padStart(2, '0')
PadStart2(n) == IF n < 10 THEN <<48>> \o Digits(n) ELSE Digits(n)

\* getLocalDateString(date): `${year}-${month}-${day}`
getLocalDateString(date) ==
  Digits(date.y) \o <<45>> \o PadStart2(date.m) \o <<45>> \o PadStart2(date.d)


(***************************************************************************)
(* Strings and maps                                                        *)
(***************************************************************************)
\* string comparison a < b as Array.prototype.sort() makes it by default: by
\* UTF-16 code units, a proper prefix first
RECURSIVE LessFrom(_, _, _)
LessFrom(a, b, i) ==
  IF i > Len(b) THEN FALSE
  ELSE IF i > Len(a) THEN TRUE
  ELSE IF a[i] # b[i] THEN a[i] < b[i]
  ELSE LessFrom(a, b, i + 1)

StringLess(a, b) == LessFrom(a, b, 1)

\* one string put in its place in an ascending sequence, after its equals
RECURSIVE InsertSorted(_, _)
InsertSorted(sorted, e) ==
  IF sorted = <<>> THEN <<e>>
  ELSE IF StringLess(e, Head(sorted)) THEN <<e>> \o sorted
  ELSE <<Head(sorted)>> \o InsertSorted(Tail(sorted), e)

RECURSIVE SortFrom(_, _, _)
SortFrom(items, i, acc) ==
  IF Computed(acc) /\ i > Len(items) THEN acc
  ELSE SortFrom(items, i + 1, InsertSorted(acc, items[i]))

\* [...strings].sort(), with the default comparison
SortStrings(strings) == SortFrom(strings, 1, <<>>)

\* the letters sorted in descending order
sortedLettersDescending(word) ==
  LET letters == SortStrings([i \in 1..Len(word) |-> <<word[i]>>])
  IN  [i \in 1..Len(word) |-> letters[Len(word) + 1 - i][1]]

\* sortedLetters(word) == [...word].sort().join(''): the one-character strings
\* of the word, sorted and joined
sortedLetters(word) ==
  LET letters == SortStrings([i \in 1..Len(word) |-> <<word[i]>>])
  IN  [i \in 1..Len(word) |-> letters[i][1]]

Range(seq) == {seq[i] : i \in 1..Len(seq)}

\* a Map as a function: has(k) is k \in DOMAIN map, get(k) is map[k]
EmptyMap == [k \in {} |-> <<>>]

\* map.set(key, value)
MapSet(map, key, value) ==
  [k \in DOMAIN map \cup {key} |-> IF k = key THEN value ELSE map[k]]

(***************************************************************************)
(* buildEngine: the word normalizer and the bucket index                   *)
(***************************************************************************)
MinLength == 3

MaxLength == 7

\* the white space String.prototype.trim() removes, among the characters the
\* inputs of this model use
IsWhiteSpace(c) == c \in {9, 10, 11, 12, 13, 32, 160, 65279}

RECURSIVE TrimStart(_)
TrimStart(chars) ==
  IF chars # <<>> /\ IsWhiteSpace(Head(chars)) THEN TrimStart(Tail(chars))
  ELSE chars

RECURSIVE TrimEnd(_)
TrimEnd(chars) ==
  IF chars # <<>> /\ IsWhiteSpace(chars[Len(chars)])
  THEN TrimEnd(SubSeq(chars, 1, Len(chars) - 1))
  ELSE chars

\* word.trim()
Trim(chars) == TrimEnd(TrimStart(chars))

\* the upper case of a character, among the characters the inputs of this
\* model use: a-z, and the sharp s, the dotless i and the long s, whose upper
\* cases are SS, I and S; the other characters are left as they are
UpperOf(c) ==
  IF c \in 97..122 THEN <<c - 32>>
  ELSE IF c = 223 THEN <<83, 83>>
  ELSE IF c = 305 THEN <<73>>
  ELSE IF c = 383 THEN <<83>>
  ELSE <<c>>

\* word.toUpperCase()
RECURSIVE ToUpperCase(_)
ToUpperCase(chars) ==
  IF chars = <<>> THEN <<>> ELSE UpperOf(Head(chars)) \o ToUpperCase(Tail(chars))

\* /^[A-Z]{3,7}$/.test(word)
IsWord(chars) ==
  /\ Len(chars) >= MinLength
  /\ Len(chars) <= MaxLength
  /\ \A i \in 1..Len(chars) : chars[i] \in 65..90

\* [...new Set(items)]: the distinct items in the order of their first occurrence
RECURSIVE DistinctFrom(_, _, _)
DistinctFrom(items, i, acc) ==
  IF Computed(acc) /\ i > Len(items) THEN acc
  ELSE DistinctFrom(items, i + 1,
                    IF items[i] \in Range(acc) THEN acc ELSE Append(acc, items[i]))

\* the dictionary of buildEngine(words); an input entry is
\* [isString |-> typeof entry === 'string', chars |-> its characters]
RECURSIVE NormalizeFrom(_, _, _)
\* the words tested against the pattern as they are, before the upper case
NormalizeFromUnchanged(words, i, acc) ==
  IF i > Len(words) THEN acc
  ELSE NormalizeFrom(words, i + 1,
                     IF words[i].isString /\ IsWord(Trim(words[i].chars))
                     THEN Append(acc, ToUpperCase(Trim(words[i].chars))) ELSE acc)

NormalizeFrom(words, i, acc) ==
  IF Computed(acc) /\ i > Len(words) THEN acc
  ELSE LET word == ToUpperCase(Trim(words[i].chars))
       IN  NormalizeFrom(words, i + 1,
                         IF words[i].isString /\ IsWord(word)
                         THEN Append(acc, word) ELSE acc)

BuildDictionary(words) == DistinctFrom(NormalizeFrom(words, 1, <<>>), 1, <<>>)

\* the loop filling buckets: each word pushed onto the bucket of its signature
RECURSIVE BuildBucketsFrom(_, _, _)
\* the loop putting each word at the front of its bucket
BuildBucketsFromFront(dict, i, bk) ==
  IF i > Len(dict) THEN bk
  ELSE LET key == sortedLetters(dict[i])
           old == IF key \in DOMAIN bk THEN bk[key] ELSE <<>>
       IN  BuildBucketsFrom(dict, i + 1, MapSet(bk, key, <<dict[i]>> \o old))

\* the loop setting the bucket of a signature to its latest word alone
BuildBucketsFromLatest(dict, i, bk) ==
  IF i > Len(dict) THEN bk
  ELSE BuildBucketsFrom(dict, i + 1, MapSet(bk, sortedLetters(dict[i]), <<dict[i]>>))

BuildBucketsFrom(dict, i, bk) ==
  IF Computed(bk) /\ i > Len(dict) THEN bk
  ELSE LET key == sortedLetters(dict[i])
           old == IF key \in DOMAIN bk THEN bk[key] ELSE <<>>
       IN  BuildBucketsFrom(dict, i + 1, MapSet(bk, key, Append(old, dict[i])))

BuildBuckets(dict) == BuildBucketsFrom(dict, 1, EmptyMap)

(***************************************************************************)
(* shuffled                                                                *)
(***************************************************************************)
\* the Fisher-Yates loop of shuffled, i counting down as in the code (0-based)
RECURSIVE ShuffleLoop(_, _, _)
RECURSIVE ShuffleStep(_, _, _)
ShuffleLoop(copy, i, seed) ==
  IF Computed(copy) /\ i <= 0 THEN [copy |-> copy, seed |-> seed]
  ELSE ShuffleStep(copy, i, random(seed))

\* [copy[i], copy[j]] = [copy[j], copy[i]], for the 1-based positions a and b
Swap(copy, a, b) == [copy EXCEPT ![a] = copy[b], ![b] = copy[a]]

\* the body of the loop with j = Math.floor(random() * i)
ShuffleStepBelow(copy, i, r) ==
  ShuffleLoop(Swap(copy, i + 1, FloorMul(r.value, i) + 1), i - 1, r.seed)

\* the body of the loop, for the draw r: j = Math.floor(random() * (i + 1))
ShuffleStep(copy, i, r) ==
  ShuffleLoop(Swap(copy, i + 1, FloorMul(r.value, i + 1) + 1), i - 1, r.seed)

\* shuffled working on items itself, with no copy made: items ends shuffled
ItemsShuffledInPlace(items, copy) == copy

\* What a call shuffled(items, random) leaves in the array it was given:
\* the loop works on const copy = [...items], so items is as it was.
ItemsAfterShuffle(items, copy) == items

\* shuffled(items, random): the array returned, the generator state after the
\* draws, and the array passed in as the call leaves it
ShuffledResult(items, done) ==
  [copy |-> done.copy, seed |-> done.seed,
   items |-> ItemsAfterShuffle(items, done.copy)]

shuffled(items, seed) ==
  ShuffledResult(items, ShuffleLoop(items, Len(items) - 1, seed))

(***************************************************************************)
(* getNextWords, isSolvable, buildChain                                    *)
(***************************************************************************)
\* the slice after the deleted letter begun one letter late: two letters go
DeleteTwoAt(sorted, i) == SubSeq(sorted, 1, i - 1) \o SubSeq(sorted, i + 2, Len(sorted))

\* sorted.slice(0, i) + sorted.slice(i + 1), for the 1-based position i
DeleteAt(sorted, i) == SubSeq(sorted, 1, i - 1) \o SubSeq(sorted, i + 1, Len(sorted))

\* for (const candidate of wordsForSignature) candidates.add(candidate)
RECURSIVE AddCandidates(_, _, _)
AddCandidates(candidates, wordsForSignature, k) ==
  IF Computed(candidates) /\ k > Len(wordsForSignature) THEN candidates
  ELSE AddCandidates(IF wordsForSignature[k] \in Range(candidates) THEN candidates
                     ELSE Append(candidates, wordsForSignature[k]),
                     wordsForSignature, k + 1)

\* the loop over the deletion positions of getNextWords; candidates is the
\* Set of the code in insertion order
RECURSIVE SignatureLoop(_, _, _, _, _)
SignatureLoop(sorted, i, seenSignatures, candidates, bk) ==
  IF Computed(candidates) /\ i > Len(sorted) THEN candidates
  ELSE LET signature == DeleteAt(sorted, i)
       IN  IF signature \in seenSignatures
           THEN SignatureLoop(sorted, i + 1, seenSignatures, candidates, bk)
           ELSE SignatureLoop(sorted, i + 1, seenSignatures \cup {signature},
                              AddCandidates(candidates,
                                            IF signature \in DOMAIN bk
                                            THEN bk[signature] ELSE <<>>, 1),
                              bk)

\* the candidates left in the order they were found in, without the sort
CandidateOrderAsFound(candidates) == candidates

\* const result = [...candidates].sort()
CandidateOrder(candidates) == SortStrings(candidates)

\* the result returned but an empty array cached, as for the short words
CachedEmpty(word, cache, result) ==
  [result |-> result, cache |-> MapSet(cache, word, <<>>)]

\* nextWordCache.set(word, result); return result
Cached(word, cache, result) ==
  [result |-> result, cache |-> MapSet(cache, word, result)]

\* getNextWords(word): the array returned and nextWordCache after the call
getNextWords(word, bk, cache) ==
  IF word \in DOMAIN cache THEN [result |-> cache[word], cache |-> cache]
  ELSE IF Len(word) <= MinLength
  THEN [result |-> <<>>, cache |-> MapSet(cache, word, <<>>)]
  ELSE Cached(word, cache,
              CandidateOrder(SignatureLoop(sortedLetters(word), 1, {}, <<>>, bk)))

\* the base case one letter off: the words of 4 letters taken for the shortest
SolvableBaseFour(word) == Len(word) = MinLength + 1

\* if (word.length === 3) return true, line 247
SolvableBase(word) == Len(word) = MinLength

\* isSolvable(word): the value returned, nextWordCache and solvableMemo after
\* the call
RECURSIVE isSolvable(_, _, _, _)
RECURSIVE SolvableLoop(_, _, _, _, _, _)
RECURSIVE SolvableOver(_, _, _, _)
RECURSIVE SolvableStep(_, _, _, _, _)
isSolvable(word, bk, cache, memo) ==
  IF SolvableBase(word) THEN [result |-> TRUE, cache |-> cache, memo |-> memo]
  ELSE IF word \in DOMAIN memo
  THEN [result |-> memo[word], cache |-> cache, memo |-> memo]
  ELSE SolvableOver(word, bk, memo, getNextWords(word, bk, cache))

\* for (const nextWord of getNextWords(word)), next being what the call gave
SolvableOver(word, bk, memo, next) ==
  SolvableLoop(word, next.result, 1, bk, next.cache, memo)

SolvableLoop(word, nextWords, k, bk, cache, memo) ==
  IF k > Len(nextWords)
  THEN [result |-> FALSE, cache |-> cache, memo |-> MapSet(memo, word, FALSE)]
  ELSE SolvableStep(word, nextWords, k, bk, isSolvable(nextWords[k], bk, cache, memo))

\* SolvableStep starting the memo afresh whenever it stores a true answer
SolvableStepForgetting(word, nextWords, k, bk, r) ==
  IF r.result
  THEN [result |-> TRUE, cache |-> r.cache, memo |-> MapSet(EmptyMap, word, TRUE)]
  ELSE SolvableLoop(word, nextWords, k + 1, bk, r.cache, r.memo)

\* SolvableStep answering false at the first next word that is not solvable
SolvableStepFirstOnly(word, nextWords, k, bk, r) ==
  [result |-> r.result, cache |-> r.cache, memo |-> MapSet(r.memo, word, r.result)]

\* the body of the loop, r being what isSolvable(nextWord) gave
SolvableStep(word, nextWords, k, bk, r) ==
  IF r.result
  THEN [result |-> TRUE, cache |-> r.cache, memo |-> MapSet(r.memo, word, TRUE)]
  ELSE SolvableLoop(word, nextWords, k + 1, bk, r.cache, r.memo)

\* the null that dfs returns when every candidate failed; a chain is never empty
NoChain == <<>>

\* DfsBase taking every word of at most 3 letters for the end of a chain
DfsBaseAtMost(word) == Len(word) <= MinLength

\* if (word.length === 3) return [word], line 268
DfsBase(word) == Len(word) = MinLength

\* dfs(word) of buildChain: the chain or NoChain, nextWordCache and the
\* generator state after the call.  getNextWords hands out the cached array
\* itself, so what shuffled leaves in its argument is what the cache holds.
RECURSIVE dfs(_, _, _, _)
RECURSIVE DfsLoop(_, _, _, _, _, _)
RECURSIVE DfsShuffle(_, _, _, _)
RECURSIVE DfsOver(_, _, _, _)
RECURSIVE DfsStep(_, _, _, _, _)
dfs(word, bk, cache, seed) ==
  IF DfsBase(word)
  THEN [chain |-> <<word>>, cache |-> cache, seed |-> seed]
  ELSE DfsShuffle(word, bk, seed, getNextWords(word, bk, cache))

\* shuffled(getNextWords(word), random), next being what getNextWords gave
DfsShuffle(word, bk, seed, next) ==
  DfsOver(word, bk, next.cache, shuffled(next.result, seed))

\* the loop going over getNextWords(word) as it is, not over the shuffled copy
DfsOverUnshuffled(word, bk, cache, sh) ==
  DfsLoop(word, sh.items, 1, bk, MapSet(cache, word, sh.items), sh.seed)

\* for (const nextWord of orderedCandidates), sh being what shuffled gave
DfsOver(word, bk, cache, sh) ==
  DfsLoop(word, sh.copy, 1, bk, MapSet(cache, word, sh.items), sh.seed)

DfsLoop(word, orderedCandidates, k, bk, cache, seed) ==
  IF k > Len(orderedCandidates)
  THEN [chain |-> NoChain, cache |-> cache, seed |-> seed]
  ELSE DfsStep(word, orderedCandidates, k, bk,
               dfs(orderedCandidates[k], bk, cache, seed))

\* DfsStep putting the chain together the wrong way round: [...tail, word]
DfsStepReversed(word, orderedCandidates, k, bk, tail) ==
  IF tail.chain # NoChain
  THEN [chain |-> tail.chain \o <<word>>, cache |-> tail.cache, seed |-> tail.seed]
  ELSE DfsLoop(word, orderedCandidates, k + 1, bk, tail.cache, tail.seed)

\* DfsStep giving up at the first candidate that fails, with no look at the next
DfsStepNoRetry(word, orderedCandidates, k, bk, tail) ==
  IF tail.chain # NoChain
  THEN [chain |-> <<word>> \o tail.chain, cache |-> tail.cache, seed |-> tail.seed]
  ELSE [chain |-> NoChain, cache |-> tail.cache, seed |-> tail.seed]

\* the body of the loop, tail being what dfs(nextWord) gave
DfsStep(word, orderedCandidates, k, bk, tail) ==
  IF tail.chain # NoChain
  THEN [chain |-> <<word>> \o tail.chain, cache |-> tail.cache, seed |-> tail.seed]
  ELSE DfsLoop(word, orderedCandidates, k + 1, bk, tail.cache, tail.seed)

\* buildChain(startWord, random)
buildChain(startWord, bk, cache, seed) == dfs(startWord, bk, cache, seed)

\* dictionary.filter(length === 7).filter(isSolvable): the words kept, in
\* dictionary order, and the caches after the pass
RECURSIVE SolvablePass(_, _, _, _, _, _)
RECURSIVE SolvablePassStep(_, _, _, _, _)
SolvablePass(dict, i, bk, cache, memo, kept) ==
  IF Computed(kept) /\ i > Len(dict) THEN [kept |-> kept, cache |-> cache, memo |-> memo]
  ELSE IF Len(dict[i]) # MaxLength
  THEN SolvablePass(dict, i + 1, bk, cache, memo, kept)
  ELSE SolvablePassStep(dict, i, bk, kept, isSolvable(dict[i], bk, cache, memo))

\* the pass ending at the first solvable word it finds
SolvablePassStepFirstFound(dict, i, bk, kept, r) ==
  IF r.result
  THEN [kept |-> Append(kept, dict[i]), cache |-> r.cache, memo |-> r.memo]
  ELSE SolvablePass(dict, i + 1, bk, r.cache, r.memo, kept)

\* the filter keeping every 7-letter word, whatever isSolvable gave
SolvablePassStepKeepAll(dict, i, bk, kept, r) ==
  SolvablePass(dict, i + 1, bk, r.cache, r.memo, Append(kept, dict[i]))

\* the filter's test on dict[i], r being what isSolvable gave
SolvablePassStep(dict, i, bk, kept, r) ==
  SolvablePass(dict, i + 1, bk, r.cache, r.memo,
               IF r.result THEN Append(kept, dict[i]) ELSE kept)


(***************************************************************************)
(* Inputs                                                                  *)
(***************************************************************************)
\* The words the dictionaries of the model are made of, in an order that is
\* not the sorted one:
\*   NAN BANANAS ANANAS BANAN CANANAS NAAN NAA BANANA ANANA ANA
Pool ==
  <<<<78, 65, 78>>,
    <<66, 65, 78, 65, 78, 65, 83>>,
    <<65, 78, 65, 78, 65, 83>>,
    <<66, 65, 78, 65, 78>>,
    <<67, 65, 78, 65, 78, 65, 83>>,
    <<78, 65, 65, 78>>,
    <<78, 65, 65>>,
    <<66, 65, 78, 65, 78, 65>>,
    <<65, 78, 65, 78, 65>>,
    <<65, 78, 65>>>>

\* entries an input may hold that are no words: a number, "AB", "BANANAS1",
\* "BANANASS", "NA N"
Junk ==
  <<[isString |-> FALSE, chars |-> <<>>],
    [isString |-> TRUE, chars |-> <<65, 66>>],
    [isString |-> TRUE, chars |-> <<66, 65, 78, 65, 78, 65, 83, 49>>],
    [isString |-> TRUE, chars |-> <<66, 65, 78, 65, 78, 65, 83, 83>>],
    [isString |-> TRUE, chars |-> <<78, 65, 32, 78>>]>>

\* entries with characters outside ASCII: "na\u00DF", whose upper case is
\* NASS; "\u00C9T\u00C9"; and NASS in lower case between no-break spaces
Foreign ==
  <<[isString |-> TRUE, chars |-> <<110, 97, 223>>],
    [isString |-> TRUE, chars |-> <<201, 84, 201>>],
    [isString |-> TRUE, chars |-> <<160, 110, 97, 115, 115, 160>>]>>

\* a word as a line of a words file might hold it: in lower case, with white
\* space around it
Untidy(word) ==
  <<32>> \o [i \in 1..Len(word) |-> word[i] + 32] \o <<9>>

\* An input: the pool's words at the positions kept, in the pool's order or
\* the reverse, every second one untidy, then the junk and the foreign
\* entries, then the first word once more.
RECURSIVE InputFrom(_, _, _, _)
InputFrom(kept, reversed, i, acc) ==
  IF i > Len(Pool) THEN acc
  ELSE LET k     == IF reversed THEN Len(Pool) + 1 - i ELSE i
           entry == [isString |-> TRUE,
                     chars |-> IF k % 2 = 0 THEN Untidy(Pool[k]) ELSE Pool[k]]
       IN  InputFrom(kept, reversed, i + 1,
                     IF k \in kept THEN Append(acc, entry) ELSE acc)

Input(kept, reversed) ==
  LET entries == InputFrom(kept, reversed, 1, <<>>)
  IN  entries \o Junk \o Foreign
      \o (IF entries = <<>> THEN <<>>
          ELSE <<[isString |-> TRUE, chars |-> ToUpperCase(Trim(entries[1].chars))]>>)

\* the largest number of days asked for
MaxDays == 2

\* the start dates: the day before a leap day, and the last two days of a year
StartDates ==
  {[y |-> 2024, m |-> 2, d |-> 28],
   [y |-> 2024, m |-> 12, d |-> 30],
   [y |-> 2024, m |-> 12, d |-> 31]}

\* the largest number of the pool's words an input leaves out
MaxDropped == 1

\* the sets of pool positions an input may keep
KeptSets ==
  {kept \in SUBSET (1..Len(Pool)) : Cardinality(kept) >= Len(Pool) - MaxDropped}

\* the number of runs of the program on the same input
MaxRuns == 2

(***************************************************************************)
(* The program                                                             *)
(***************************************************************************)
VARIABLES
  words,                  \* main: the parsed words file
  options,                \* main: [startDate, days] from parseArgs
  now,                    \* the clock: the number of the run
  earlier,                \* what the previous run of the program returned
  pc,                     \* main: the statement to run next
  dictionary,             \* buildEngine: dictionary
  buckets,                \* buildEngine: buckets
  nextWordCache,          \* buildEngine: nextWordCache
  solvableMemo,           \* buildEngine: solvableMemo
  validSevenLetterWords,  \* buildEngine: validSevenLetterWords
  offset,                 \* generatePuzzles: offset
  draw,                   \* generatePuzzles: the first value of random, index
  puzzles,                \* generatePuzzles: puzzles
  error,                  \* the error thrown, or "none"
  output,                 \* main: what was written to the output file
  call,                   \* the last call of a function of the engine
  seen,                   \* what the first call of each function returned
  page                    \* the page in the browser: its state, localStorage

vars ==
  <<words, options, now, earlier, pc, dictionary, buckets, nextWordCache,
    solvableMemo, validSevenLetterWords, offset, draw, puzzles, error, output,
    call, seen, page>>

inputVars == <<words, options>>

callVars == <<call, seen>>

engineVars ==
  <<dictionary, buckets, nextWordCache, solvableMemo, validSevenLetterWords>>

\* the page is not open while the generator runs
PageClosed == [open |-> FALSE]

NotWritten == [written |-> FALSE]

NoDraw == [drawn |-> FALSE]

NoRun == [ran |-> FALSE]

NoCall ==
  [op |-> "none", word |-> <<>>, seed |-> <<>>, result |-> <<>>, again |-> FALSE]

\* the state of a process before main runs
Fresh ==
  /\ pc = "buildEngine"
  /\ dictionary = <<>>
  /\ buckets = EmptyMap
  /\ nextWordCache = EmptyMap
  /\ solvableMemo = EmptyMap
  /\ validSevenLetterWords = <<>>
  /\ offset = 0
  /\ draw = NoDraw
  /\ puzzles = <<>>
  /\ error = "none"
  /\ output = NotWritten

Init ==
  /\ \E kept \in KeptSets, reversed \in BOOLEAN :
       words = Input(kept, reversed)
  /\ \E startDate \in StartDates, days \in 1..MaxDays :
       options = [startDate |-> startDate, days |-> days]
  /\ now = 1
  /\ earlier = NoRun
  /\ call = NoCall
  /\ seen = EmptyMap
  /\ page = PageClosed
  /\ Fresh

\* the error of lines 291-293
NoSolvableWords == "No solvable 7-letter words found"

\* the error of lines 315-317
NoFullChain == "Could not build full chain"

\* the test left out: buildEngine returns an engine with no start word
NoneValidNever(valid) == FALSE

\* the test asking for two words or more
FewerThanTwoValid(valid) == Len(valid) < 2

\* if (!validSevenLetterWords.length), line 291
NoneValid(valid) == Len(valid) = 0

\* the solvable words left in the order of the dictionary, without the sort
ValidInDictionaryOrder(kept) == kept

\* .sort() of validSevenLetterWords, line 289
ValidSorted(kept) == SortStrings(kept)

\* const engine = buildEngine(words), lines 191-300
BuildEngine ==
  /\ pc = "buildEngine"
  /\ \E dict \in {BuildDictionary(words)} :
       \E bk \in {BuildBuckets(dict)} :
         \E pass \in {SolvablePass(dict, 1, bk, EmptyMap, EmptyMap, <<>>)} :
           \E valid \in {ValidSorted(pass.kept)} :
             /\ dictionary' = dict
             /\ buckets' = bk
             /\ nextWordCache' = pass.cache
             /\ solvableMemo' = pass.memo
             /\ validSevenLetterWords' = valid
             /\ IF NoneValid(valid)
                THEN pc' = "failed" /\ error' = NoSolvableWords
                ELSE pc' = "generatePuzzles" /\ error' = error
  /\ UNCHANGED <<inputVars, now, earlier, offset, draw, puzzles, output, callVars, page>>

\* the generator seeded from the place of the date in the request as well
PuzzleSeedWithOffset(dateString) == Add32(stringToSeed(dateString), U32(offset))

\* the generator seeded from the clock as well as from the date
PuzzleSeedFromClock(dateString) == Add32(stringToSeed(dateString), U32(now))

\* mulberry32(stringToSeed(dateString)): the state of the date's generator
PuzzleSeed(dateString) == stringToSeed(dateString)

\* array[index] for a 0-based index is undefined past the end
InBounds(array, index) == index >= 0 /\ index < Len(array)

\* the date of the iteration with the offset left out
DateAtStart(startDate, k) == SetDate(startDate, startDate.d)

\* the date of the iteration: date.setDate(startDate.getDate() + offset)
DateAt(startDate, k) == SetDate(startDate, startDate.d + k)

\* the record with the solution's indices one too low
PuzzleRecordFromStart(dateString, startWord, chain) ==
  [date |-> dateString,
   startWord |-> startWord,
   words |-> chain,
   solution |-> [six |-> chain[1], five |-> chain[2],
                 four |-> chain[3], three |-> chain[4]]]

\* the record pushed onto puzzles
PuzzleRecord(dateString, startWord, chain) ==
  [date |-> dateString,
   startWord |-> startWord,
   words |-> chain,
   solution |-> [six |-> chain[2], five |-> chain[3],
                 four |-> chain[4], three |-> chain[5]]]

\* the test that lets a chain of another length than 5 through
ChainFailedNullOnly(chain) == chain = NoChain

\* if (!chain || chain.length !== 5), line 315
ChainFailed(chain) == chain = NoChain \/ Len(chain) # 5

\* buildChain handed a generator made anew from the date's seed
ChainGeneratorReseeded(dateSeed, first) == dateSeed

\* the generator buildChain is handed, line 314: random itself, in the state
\* its first call left it in
ChainGenerator(dateSeed, first) == first.seed

\* generatePuzzles takes the engine as a parameter.  main hands it the one
\* buildEngine returned; the other kinds are engines whose buildChain returns
\* null, or a chain of 6 words.
EngineKinds == {"buildEngine", "returnsNull", "returnsSix"}

\* engine.buildChain(startWord, random), line 314, for an engine of a kind
ChainOf(kind, startWord, built) ==
  IF kind = "returnsNull" THEN NoChain
  ELSE IF kind = "returnsSix" THEN built.chain \o <<startWord>>
  ELSE built.chain

\* one iteration of the loop of generatePuzzles, lines 305-330, with an
\* engine of a kind
GenerateWith(kind) ==
  /\ pc = "generatePuzzles"
  /\ offset < options.days
  /\ \E dateString \in {getLocalDateString(DateAt(options.startDate, offset))} :
       \E first \in {random(PuzzleSeed(dateString))} :
         \E index \in {FloorMul(first.value, Len(validSevenLetterWords))} :
           /\ draw' = [drawn |-> TRUE, value |-> first.value, index |-> index]
           /\ IF ~InBounds(validSevenLetterWords, index)
              THEN \* startWord is undefined, and word.length throws in dfs
                   /\ pc' = "failed"
                   /\ error' = "TypeError"
                   /\ UNCHANGED <<nextWordCache, offset, puzzles>>
              ELSE \E startWord \in {validSevenLetterWords[index + 1]} :
                     \E built \in {buildChain(startWord, buckets, nextWordCache,
                                              ChainGenerator(PuzzleSeed(dateString),
                                                             first))} :
                       \E chain \in {ChainOf(kind, startWord, built)} :
                         /\ nextWordCache' = built.cache
                         /\ IF ChainFailed(chain)
                            THEN /\ pc' = "failed"
                                 /\ error' = NoFullChain
                                 /\ UNCHANGED <<offset, puzzles>>
                            ELSE /\ puzzles' =
                                      Append(puzzles,
                                             PuzzleRecord(dateString, startWord,
                                                          chain))
                                 /\ offset' = offset + 1
                                 /\ UNCHANGED <<pc, error>>
  /\ UNCHANGED <<inputVars, now, earlier, dictionary, buckets, solvableMemo,
                 validSevenLetterWords, output,
                 callVars, page>>

\* the iteration as main runs it: with the engine buildEngine returned
GenerateDate == GenerateWith("buildEngine")

\* the iteration with whatever engine generatePuzzles was handed
GenerateDateAnyEngine == \E kind \in EngineKinds : GenerateWith(kind)

\* generatePuzzles returns; main builds the output and writes it, lines 345-357
WriteOutput ==
  /\ pc = "generatePuzzles"
  /\ offset >= options.days
  /\ pc' = "done"
  /\ output' = [written |-> TRUE,
                generatedAt |-> now,
                startDate |-> getLocalDateString(options.startDate),
                days |-> options.days,
                dictionarySize |-> Len(dictionary),
                solvableSevenLetterWords |-> Len(validSevenLetterWords),
                puzzles |-> puzzles]
  /\ UNCHANGED <<inputVars, now, earlier, engineVars, offset, draw, puzzles, error,
                 callVars, page>>

\* the program is run once more, later, on the same words file with the given
\* arguments: a new process, with nothing of the previous one but its result
RunAgainWith(arguments) ==
  /\ pc \in {"done", "failed"}
  /\ now < MaxRuns
  /\ now' = now + 1
  /\ earlier' = [ran |-> TRUE, error |-> error, output |-> output]
  /\ pc' = "buildEngine"
  /\ dictionary' = <<>>
  /\ buckets' = EmptyMap
  /\ nextWordCache' = EmptyMap
  /\ solvableMemo' = EmptyMap
  /\ validSevenLetterWords' = <<>>
  /\ offset' = 0
  /\ draw' = NoDraw
  /\ puzzles' = <<>>
  /\ error' = "none"
  /\ output' = NotWritten
  /\ options' = arguments
  /\ UNCHANGED <<words, callVars, page>>

\* the run with the same arguments
RunAgain == RunAgainWith(options)

\* the run with any start date and day count
RunAgainOtherwise ==
  \E startDate \in StartDates, days \in 1..MaxDays :
    RunAgainWith([startDate |-> startDate, days |-> days])

Next == BuildEngine \/ GenerateDate \/ WriteOutput \/ RunAgain

Spec == Init /\ [][Next]_vars

(***************************************************************************)
(* The functions of the engine, called one at a time                       *)
(***************************************************************************)
\* the words the functions are called on: the pool's, in the dictionary or
\* not, and "NA"
CallWords == Range(Pool) \cup {<<78, 65>>}

\* the generator states buildChain is called with: those of two dates
CallSeeds ==
  {PuzzleSeed(getLocalDateString(date)) :
     date \in {[y |-> 2024, m |-> 2, d |-> 28], [y |-> 2024, m |-> 12, d |-> 30]}}

\* what does not change when a function of the engine is called
callFrame ==
  <<inputVars, now, earlier, pc, dictionary, buckets, validSevenLetterWords,
    offset, draw, puzzles, error, output, page>>

\* the engine was returned, and the calls of a behaviour are on one word
CanCall(word) ==
  /\ pc = "generatePuzzles"
  /\ call.word \in {<<>>, word}

\* The first result of each call is kept, to compare the later ones with;
\* call.again says that the call had been made before.
Remember(key, result) ==
  seen' = IF key \in DOMAIN seen THEN seen ELSE MapSet(seen, key, result)

\* getNextWords(word), lines 212-242
CallGetNextWords ==
  \E word \in CallWords :
    /\ CanCall(word)
    /\ \E r \in {getNextWords(word, buckets, nextWordCache)} :
         /\ nextWordCache' = r.cache
         /\ call' = [op |-> "getNextWords", word |-> word, seed |-> <<>>,
                     result |-> r.result,
                     again |-> <<"getNextWords", <<>>>> \in DOMAIN seen]
         /\ Remember(<<"getNextWords", <<>>>>, r.result)
    /\ UNCHANGED <<callFrame, solvableMemo>>

\* isSolvable(word), lines 246-264
CallIsSolvable ==
  \E word \in CallWords :
    /\ CanCall(word)
    /\ \E r \in {isSolvable(word, buckets, nextWordCache, solvableMemo)} :
         /\ nextWordCache' = r.cache
         /\ solvableMemo' = r.memo
         /\ call' = [op |-> "isSolvable", word |-> word, seed |-> <<>>,
                     result |-> r.result,
                     again |-> <<"isSolvable", <<>>>> \in DOMAIN seen]
         /\ Remember(<<"isSolvable", <<>>>>, r.result)
    /\ UNCHANGED callFrame

\* buildChain(startWord, random), lines 266-284, for a new generator random
\* in one of the given states
CallBuildChainWith(seeds) ==
  \E word \in CallWords, seed \in seeds :
    /\ CanCall(word)
    /\ \E r \in {buildChain(word, buckets, nextWordCache, seed)} :
         /\ nextWordCache' = r.cache
         /\ call' = [op |-> "buildChain", word |-> word, seed |-> seed,
                     result |-> r.chain,
                     again |-> <<"buildChain", seed>> \in DOMAIN seen]
         /\ Remember(<<"buildChain", seed>>, r.chain)
    /\ UNCHANGED <<callFrame, solvableMemo>>

CallBuildChain == CallBuildChainWith(CallSeeds)

\* the engine is built from an input of Init, with the arguments left at one
\* value, and its functions are called in any order, any number of times
InitEngine ==
  /\ Init
  /\ options = [startDate |-> [y |-> 2024, m |-> 2, d |-> 28], days |-> 1]

NextEngine == BuildEngine \/ CallGetNextWords \/ CallIsSolvable \/ CallBuildChain

SpecEngine == InitEngine /\ [][NextEngine]_vars

\* the dictionary BANANAS BANANA ANANAS ANANA BANAN NAAN ANA NAN
ExampleWords ==
  <<<<66, 65, 78, 65, 78, 65, 83>>,
    <<66, 65, 78, 65, 78, 65>>,
    <<65, 78, 65, 78, 65, 83>>,
    <<65, 78, 65, 78, 65>>,
    <<66, 65, 78, 65, 78>>,
    <<78, 65, 65, 78>>,
    <<65, 78, 65>>,
    <<78, 65, 78>>>>

\* the engine is built from that dictionary and its functions are called
InitExample ==
  /\ words = [i \in 1..Len(ExampleWords) |->
                [isString |-> TRUE, chars |-> ExampleWords[i]]]
  /\ options = [startDate |-> [y |-> 2024, m |-> 2, d |-> 28], days |-> 1]
  /\ now = 1
  /\ earlier = NoRun
  /\ call = NoCall
  /\ seen = EmptyMap
  /\ page = PageClosed
  /\ Fresh

\* the generator states buildChain is called with there: those of three dates
ExampleSeeds ==
  {PuzzleSeed(getLocalDateString(date)) :
     date \in {[y |-> 2024, m |-> 2, d |-> 28], [y |-> 2024, m |-> 3, d |-> 1],
               [y |-> 2024, m |-> 12, d |-> 31]}}

CallBuildChainExample == CallBuildChainWith(ExampleSeeds)

NextExample ==
  BuildEngine \/ CallGetNextWords \/ CallIsSolvable \/ CallBuildChainExample

SpecExample == InitExample /\ [][NextExample]_vars

\* the program run on the whole pool, and again with other arguments
InitRequests ==
  /\ Init
  /\ \E reversed \in BOOLEAN : words = Input(1..Len(Pool), reversed)

NextRequests == BuildEngine \/ GenerateDate \/ WriteOutput \/ RunAgainOtherwise

SpecRequests == InitRequests /\ [][NextRequests]_vars

\* the longest array shuffled is called on
MaxItems == 4

\* the arrays shuffled is called on: of up to MaxItems items, some equal
ItemArrays == UNION {[1..n -> {"a", "b", "c"}] : n \in 0..MaxItems}

\* shuffled(items, random), lines 182-189, for a generator random in one of
\* the states of three dates, once; call.word holds items, call.result what
\* shuffled gave
CallShuffled ==
  \E items \in ItemArrays, seed \in ExampleSeeds :
    /\ call = NoCall
    /\ call' = [op |-> "shuffled", word |-> items, seed |-> seed,
                result |-> shuffled(items, seed), again |-> FALSE]
    /\ UNCHANGED <<callFrame, nextWordCache, solvableMemo, seen>>

SpecShuffled == InitExample /\ [][CallShuffled]_vars

\* main with generatePuzzles handed an engine of any kind
NextAnyEngine == BuildEngine \/ GenerateDateAnyEngine \/ WriteOutput

SpecAnyEngine == Init /\ [][NextAnyEngine]_vars
(***************************************************************************)
(* What the claims are stated with                                         *)
(***************************************************************************)
InDictionary(word) == word \in Range(dictionary)

\* the number of times a letter occurs in a word
CountOf(word, c) == Cardinality({i \in 1..Len(word) : word[i] = c})

\* shorter's sorted letters are longer's with exactly one letter removed: the
\* letters of shorter are those of longer, one occurrence of one letter less
OneLetterRemoved(longer, shorter) ==
  /\ Len(shorter) = Len(longer) - 1
  /\ \E c \in Range(longer) :
       \A d \in Range(longer) \cup Range(shorter) :
         CountOf(shorter, d) = CountOf(longer, d) - (IF d = c THEN 1 ELSE 0)

\* some sequence of one-letter removals through dictionary words leads from
\* the word to a word of 3 letters
RECURSIVE ReachesThree(_)
ReachesThree(word) ==
  \/ Len(word) = 3
  \/ \E next \in Range(dictionary) :
       OneLetterRemoved(word, next) /\ ReachesThree(next)

NoDuplicates(seq) == \A i, j \in 1..Len(seq) : seq[i] = seq[j] => i = j

\* the number a sequence of decimal digits writes
RECURSIVE DigitsValue(_)
DigitsValue(digits) ==
  IF digits = <<>> THEN 0
  ELSE 10 * DigitsValue(SubSeq(digits, 1, Len(digits) - 1))
       + (digits[Len(digits)] - 48)

IsDigits(chars) == \A i \in 1..Len(chars) : chars[i] \in 48..57

\* a string of the form YYYY-MM-DD (the year of at least 4 digits)
IsIsoForm(str) ==
  /\ Len(str) >= 10
  /\ str[Len(str) - 2] = 45
  /\ str[Len(str) - 5] = 45
  /\ IsDigits(SubSeq(str, 1, Len(str) - 6))
  /\ IsDigits(SubSeq(str, Len(str) - 4, Len(str) - 3))
  /\ IsDigits(SubSeq(str, Len(str) - 1, Len(str)))

\* the date a string of that form writes
DateOf(str) ==
  [y |-> DigitsValue(SubSeq(str, 1, Len(str) - 6)),
   m |-> DigitsValue(SubSeq(str, Len(str) - 4, Len(str) - 3)),
   d |-> DigitsValue(SubSeq(str, Len(str) - 1, Len(str)))]

IsCalendarDate(date) ==
  /\ date.m \in 1..12
  /\ date.d >= 1
  /\ date.d <= DaysInMonth(date.y, date.m)

\* the number of days from 0001-01-01 to a date of the Gregorian calendar
DayNumber(date) ==
  365 * (date.y - 1) + (date.y - 1) \div 4 - (date.y - 1) \div 100
  + (date.y - 1) \div 400
  + <<0, 31, 59, 90, 120, 151, 181, 212, 243, 273, 304, 334>>[date.m]
  + (IF date.m > 2 /\ IsLeapYear(date.y) THEN 1 ELSE 0)
  + date.d - 1

\* the finished runs: main has returned or thrown
Finished == pc \in {"done", "failed"}

(***************************************************************************)
(* The claims                                                              *)
(***************************************************************************)
\* C1: every record generatePuzzles emits has a chain (words) of exactly 5
\* words of lengths 7, 6, 5, 4, 3 in that order, every one a dictionary word,
\* and each word's letters are those of the word before it with exactly one
\* letter removed.
ChainShape(chain) ==
  /\ Len(chain) = 5
  /\ \A i \in 1..5 : Len(chain[i]) = 8 - i /\ InDictionary(chain[i])
  /\ \A i \in 1..4 : OneLetterRemoved(chain[i], chain[i + 1])

C1_ChainsAreValid ==
  /\ \A k \in 1..Len(puzzles) : ChainShape(puzzles[k].words)
  /\ output.written => \A k \in 1..Len(output.puzzles) :
                         ChainShape(output.puzzles[k].words)

\* two records were written, for two start words
C1_Witness ==
  /\ pc = "done"
  /\ Len(output.puzzles) = 2
  /\ output.puzzles[1].startWord # output.puzzles[2].startWord

\* C3: two complete runs of the program with the same start date, the same
\* day count and the same words end the same way, and when they write their
\* puzzles, they write the same list: the same startWord and the same chain
\* for every date.
C3_RunsAgree ==
  (earlier.ran /\ Finished) =>
    /\ error = earlier.error
    /\ output.written = earlier.output.written
    /\ output.written => output.puzzles = earlier.output.puzzles

\* a second run has written two puzzles, at another time than the first run
C3_Witness ==
  /\ earlier.ran
  /\ pc = "done"
  /\ Len(output.puzzles) = 2
  /\ output.generatedAt # earlier.output.generatedAt
  /\ output.puzzles[1].words # output.puzzles[2].words

\* C4: when generatePuzzles(startDate, days) completes it has returned
\* exactly days records, the record at offset k carries the calendar date k
\* days after startDate, in the form YYYY-MM-DD, and no two records carry the
\* same date.
DatesFollow(records) ==
  /\ \A k \in 1..Len(records) :
       /\ IsIsoForm(records[k].date)
       /\ IsCalendarDate(DateOf(records[k].date))
       /\ DayNumber(DateOf(records[k].date)) = DayNumber(options.startDate) + k - 1
  /\ \A j, k \in 1..Len(records) : records[j].date = records[k].date => j = k

C4_RecordsPerDay ==
  /\ DatesFollow(puzzles)
  /\ Len(puzzles) = offset
  /\ output.written => output.puzzles = puzzles /\ Len(puzzles) = options.days

\* two records were returned, the second for the first day of a year
C4_Witness ==
  /\ pc = "done"
  /\ Len(output.puzzles) = 2
  /\ DateOf(output.puzzles[2].date) = [y |-> 2025, m |-> 1, d |-> 1]

\* C2: two invocations of buildChain with the same start word and two random
\* sources created from the same seed return the same result, the same words
\* in the same order or no chain both times, whatever was called in between.
C2_BuildChainRepeats ==
  call.op = "buildChain" => call.result = seen[<<"buildChain", call.seed>>]

\* buildChain was called a second time with the same seed and gave a chain
\* whose second word was one of several candidates
C2_Witness ==
  /\ call.op = "buildChain"
  /\ call.again
  /\ Len(call.result) = 5
  /\ Len(nextWordCache[call.word]) > 1

\* what isSolvable and getNextWords answer in the current state of the engine
SolvableNow(word) == isSolvable(word, buckets, nextWordCache, solvableMemo).result

NextWordsNow(word) == getNextWords(word, buckets, nextWordCache).result

\* C5: for a dictionary word W of more than 3 letters, isSolvable(W) is true
\* if and only if getNextWords(W) holds a word for which isSolvable is true,
\* on the first call and on the calls answered from the memo, in whatever
\* order the words were asked about.
SolvableIffNext(word, answer) ==
  answer <=> \E next \in Range(NextWordsNow(word)) : SolvableNow(next)

C5_SolvableIffNextSolvable ==
  /\ (call.op = "isSolvable" /\ InDictionary(call.word) /\ Len(call.word) > 3) =>
       /\ SolvableIffNext(call.word, call.result)
       /\ SolvableIffNext(call.word, SolvableNow(call.word))
       /\ call.result <=> ReachesThree(call.word)
  /\ \A word \in DOMAIN solvableMemo :
       (InDictionary(word) /\ Len(word) > 3) =>
         SolvableIffNext(word, solvableMemo[word])

\* isSolvable was asked again about a dictionary word that has next words,
\* none of them solvable, after getNextWords and buildChain were called
C5_Witness ==
  /\ call.op = "isSolvable"
  /\ call.again
  /\ InDictionary(call.word)
  /\ Len(call.word) > 3
  /\ ~call.result
  /\ NextWordsNow(call.word) # <<>>
  /\ {<<"getNextWords", <<>>>>} \subseteq DOMAIN seen
  /\ \E seed \in CallSeeds : <<"buildChain", seed>> \in DOMAIN seen

\* C6: isSolvable(W) is true for every word W of 3 letters.
C6_ThreeLettersSolvable ==
  (call.op = "isSolvable" /\ Len(call.word) = 3) => call.result = TRUE

\* isSolvable was asked about a word of 3 letters that is not in the dictionary
C6_Witness ==
  /\ call.op = "isSolvable"
  /\ Len(call.word) = 3
  /\ ~InDictionary(call.word)
  /\ call.result = TRUE

\* C7: getNextWords(W) holds no word whose length is not len(W) - 1, holds no
\* word twice, and gives the same words in the same order on every repeated
\* call, also after buildChain and isSolvable were called.
C7_NextWordsStable ==
  call.op = "getNextWords" =>
    /\ \A i \in 1..Len(call.result) : Len(call.result[i]) = Len(call.word) - 1
    /\ NoDuplicates(call.result)
    /\ call.result = seen[<<"getNextWords", <<>>>>]

\* getNextWords was called again, after buildChain had shuffled its result of
\* two words or more into another order for a chain
C7_Witness ==
  /\ call.op = "getNextWords"
  /\ call.again
  /\ Len(call.result) > 1
  /\ \E seed \in CallSeeds :
       /\ <<"buildChain", seed>> \in DOMAIN seen
       /\ Len(seen[<<"buildChain", seed>>]) = 5
       /\ seen[<<"buildChain", seed>>][2] # call.result[1]

\* C8: for a word W of more than 3 letters getNextWords(W) is exactly the set
\* of the dictionary words whose letters are W's with one letter deleted, in
\* ascending order; for a word of 3 letters or fewer it is the empty sequence.
IsAscending(seq) == \A i \in 1..(Len(seq) - 1) : StringLess(seq[i], seq[i + 1])

C8_NextWordsExact ==
  call.op = "getNextWords" =>
    IF Len(call.word) > 3
    THEN /\ Range(call.result) =
              {word \in Range(dictionary) : OneLetterRemoved(call.word, word)}
         /\ IsAscending(call.result)
    ELSE call.result = <<>>

\* getNextWords gave two words or more, found in another order than the one
\* they are returned in
C8_Witness ==
  /\ call.op = "getNextWords"
  /\ Len(call.result) > 1
  /\ \E i, j \in 1..Len(dictionary) :
       /\ i < j
       /\ dictionary[i] \in Range(call.result)
       /\ dictionary[j] \in Range(call.result)
       /\ StringLess(dictionary[j], dictionary[i])

\* C9: the start word generatePuzzles chooses is a member of the sorted list
\* of the solvable 7-letter words: the value drawn lies in [0,1), the index
\* floor(random() * count) lies in 0..count-1, and the start word is neither
\* undefined nor unsolvable.
C9_StartWordIsValid ==
  /\ IsAscending(validSevenLetterWords)
  /\ \A i \in 1..Len(validSevenLetterWords) :
       /\ InDictionary(validSevenLetterWords[i])
       /\ Len(validSevenLetterWords[i]) = 7
       /\ ReachesThree(validSevenLetterWords[i])
  /\ error # "TypeError"
  /\ draw.drawn =>
       /\ draw.value[1] \in 0..(Half - 1)
       /\ draw.value[2] \in 0..(Half - 1)
       /\ draw.index \in 0..(Len(validSevenLetterWords) - 1)
       /\ Len(puzzles) > 0
       /\ puzzles[Len(puzzles)].startWord = validSevenLetterWords[draw.index + 1]

\* the second of two solvable words was chosen, by a value of a half or more
C9_Witness ==
  /\ draw.drawn
  /\ Len(validSevenLetterWords) = 2
  /\ draw.index = 1
  /\ draw.value[1] >= Half \div 2
  /\ Len(puzzles) > 0
  /\ puzzles[Len(puzzles)].startWord = validSevenLetterWords[2]

\* C10: for a start word of 7 letters for which isSolvable is true, and the
\* random stream of any date, buildChain returns a chain, never the no-chain
\* result, of exactly 5 words, so that generatePuzzles never fails to build a
\* chain.
ChainBuiltFor(startWord) ==
  (Len(startWord) = 7 /\ SolvableNow(startWord)) =>
    /\ pc # "failed"
    /\ Len(puzzles) > 0
    /\ puzzles[Len(puzzles)].startWord = startWord
    /\ puzzles[Len(puzzles)].words # NoChain
    /\ Len(puzzles[Len(puzzles)].words) = 5

C10_SolvableStartGivesChain ==
  /\ error # NoFullChain
  /\ (draw.drawn /\ InBounds(validSevenLetterWords, draw.index)) =>
       ChainBuiltFor(validSevenLetterWords[draw.index + 1])

\* the first candidate of the start word, in the order the shuffle of the
\* date's generator gives
FirstTried(record) ==
  shuffled(NextWordsNow(record.startWord),
           random(PuzzleSeed(record.date)).seed).copy[1]

\* a chain was built for a start word whose first candidate, in the order of
\* the shuffle, leads nowhere
C10_Witness ==
  /\ draw.drawn
  /\ Len(puzzles) > 0
  /\ Len(puzzles[Len(puzzles)].words) = 5
  /\ ~SolvableNow(FirstTried(puzzles[Len(puzzles)]))
  /\ puzzles[Len(puzzles)].words[2] # FirstTried(puzzles[Len(puzzles)])

\* a 7-letter dictionary word from which one-letter deletions through
\* dictionary words lead to a 3-letter word
HasSolvableSeven ==
  \E word \in Range(dictionary) : Len(word) = 7 /\ ReachesThree(word)

\* C11: buildEngine fails with the no-solvable-words error if and only if
\* the normalized dictionary holds no 7-letter word with a path of one-letter
\* deletions down to a 3-letter word, and it fails before any puzzle record
\* is generated or written.
C11_FailsIffNothingSolvable ==
  /\ pc # "buildEngine" => (error = NoSolvableWords <=> ~HasSolvableSeven)
  /\ error = NoSolvableWords =>
       /\ pc = "failed"
       /\ ~draw.drawn
       /\ offset = 0
       /\ puzzles = <<>>
       /\ ~output.written

\* buildEngine failed on a dictionary that has a 7-letter word with next
\* words, none of which leads to a 3-letter word
C11_Witness ==
  /\ pc = "failed"
  /\ error = NoSolvableWords
  /\ \E word \in Range(dictionary) :
       /\ Len(word) = 7
       /\ \E next \in Range(dictionary) : OneLetterRemoved(word, next)

\* C12: if buildChain returns no chain, or a chain whose length is not 5,
\* for a date, generatePuzzles aborts the whole run with an error: no record
\* is made for the date, the date is not skipped, nothing is returned, also
\* not the records of the earlier dates, and the output is not written.
C12_ChainFailureStopsRun ==
  /\ \A k \in 1..Len(puzzles) : Len(puzzles[k].words) = 5
  /\ Len(puzzles) = offset
  /\ error = NoFullChain => pc = "failed" /\ output = NotWritten
  /\ pc = "failed" => error # "none" /\ output = NotWritten
  /\ output.written =>
       /\ error = "none"
       /\ Len(output.puzzles) = options.days
       /\ output.puzzles = puzzles

\* the run was stopped at the second date, after a record for the first
C12_Witness ==
  /\ pc = "failed"
  /\ error = NoFullChain
  /\ options.days = 2
  /\ Len(puzzles) = 1
  /\ output = NotWritten

\* C13: every emitted record has startWord equal to the first, 7-letter word
\* of its chain, and a solution whose six, five, four and three entries are
\* the chain's 2nd, 3rd, 4th and 5th words, of 6, 5, 4 and 3 letters.
RecordShape(record) ==
  /\ DOMAIN record = {"date", "startWord", "words", "solution"}
  /\ record.startWord = record.words[1]
  /\ Len(record.startWord) = 7
  /\ DOMAIN record.solution = {"six", "five", "four", "three"}
  /\ record.solution.six = record.words[2] /\ Len(record.solution.six) = 6
  /\ record.solution.five = record.words[3] /\ Len(record.solution.five) = 5
  /\ record.solution.four = record.words[4] /\ Len(record.solution.four) = 4
  /\ record.solution.three = record.words[5] /\ Len(record.solution.three) = 3

C13_RecordsAreWellFormed ==
  /\ \A k \in 1..Len(puzzles) : RecordShape(puzzles[k])
  /\ output.written => \A k \in 1..Len(output.puzzles) : RecordShape(output.puzzles[k])

\* two records were written whose solutions differ in the 6-letter word
C13_Witness ==
  /\ output.written
  /\ Len(output.puzzles) = 2
  /\ output.puzzles[1].solution.six # output.puzzles[2].solution.six

\* the entries of the input that are strings
StringInputs == {e \in Range(words) : e.isString}

\* the words the input was made to hold: the pool's words it has, as they are
\* or untidy, and NASS
WordsMeant ==
  {Pool[k] : k \in {n \in 1..Len(Pool) :
                      \E e \in StringInputs : e.chars \in {Pool[n], Untidy(Pool[n])}}}
  \cup {<<78, 65, 83, 83>>}

\* C14: the dictionary built by buildEngine is exactly the set of distinct
\* values got by trimming and uppercasing each string input and keeping those
\* made of 3 to 7 letters A-Z; every other entry (no string, wrong length,
\* other characters) is dropped without an error, and no word is there twice.
C14_DictionaryIsNormalized ==
  pc # "buildEngine" =>
    /\ Range(dictionary) =
         {word \in {ToUpperCase(Trim(e.chars)) : e \in StringInputs} :
            /\ Len(word) \in 3..7
            /\ \A i \in 1..Len(word) : word[i] \in 65..90}
    /\ Range(dictionary) = WordsMeant
    /\ NoDuplicates(dictionary)
    /\ error \in {"none", NoSolvableWords}

\* an engine was built from an input with a non-string, words too short and
\* too long, a word written twice, a lower-case word, and a sharp s
C14_Witness ==
  /\ pc = "generatePuzzles"
  /\ \E e \in Range(words) : ~e.isString
  /\ \E e \in StringInputs : Len(ToUpperCase(Trim(e.chars))) \in {2, 8}
  /\ \E i, j \in 1..Len(words) :
       /\ i < j
       /\ words[i].isString
       /\ words[j].isString
       /\ ToUpperCase(Trim(words[i].chars)) = ToUpperCase(Trim(words[j].chars))
       /\ ToUpperCase(Trim(words[i].chars)) \in Range(dictionary)
  /\ \E e \in StringInputs :
       /\ e.chars # ToUpperCase(Trim(e.chars))
       /\ ToUpperCase(Trim(e.chars)) \in Range(dictionary)
  /\ <<78, 65, 83, 83>> \in Range(dictionary)

\* the chains of dictionary words, from 7 letters to 3, that start at a word
ChainsFrom(word) ==
  {chain \in [1..5 -> Range(dictionary)] : chain[1] = word /\ ChainShape(chain)}

\* C15: with the dictionary BANANAS, BANANA, ANANAS, ANANA, BANAN, NAAN, ANA,
\* NAN: the signature of NAAN is AANN, getNextWords(BANANAS) is exactly
\* {ANANAS, BANANA}, isSolvable(BANANAS) is true, and every chain built from
\* BANANAS ends in ANA or NAN.
C15_BananasExample ==
  pc = "generatePuzzles" =>
    /\ Range(dictionary) = Range(ExampleWords)
    /\ sortedLetters(ExampleWords[6]) = <<65, 65, 78, 78>>
    /\ <<65, 65, 78, 78>> \in DOMAIN buckets
    /\ buckets[<<65, 65, 78, 78>>] = <<ExampleWords[6]>>
    /\ (call.op = "getNextWords" /\ call.word = ExampleWords[1]) =>
         /\ Range(call.result) = {ExampleWords[3], ExampleWords[2]}
         /\ Len(call.result) = 2
    /\ (call.op = "isSolvable" /\ call.word = ExampleWords[1]) => call.result = TRUE
    /\ (call.op = "buildChain" /\ call.word = ExampleWords[1]) =>
         /\ Len(call.result) = 5
         /\ call.result[5] \in {ExampleWords[7], ExampleWords[8]}
    /\ \A chain \in ChainsFrom(ExampleWords[1]) :
         chain[5] \in {ExampleWords[7], ExampleWords[8]}

\* a chain was built from BANANAS that ends in NAN, after one that ends in ANA
C15_Witness ==
  /\ call.op = "buildChain"
  /\ call.word = ExampleWords[1]
  /\ Len(call.result) = 5
  /\ call.result[5] = ExampleWords[8]
  /\ \E seed \in ExampleSeeds :
       /\ <<"buildChain", seed>> \in DOMAIN seen
       /\ Len(seen[<<"buildChain", seed>>]) = 5
       /\ seen[<<"buildChain", seed>>][5] = ExampleWords[7]

\* C16: when the dictionary has exactly one solvable 7-letter word,
\* generatePuzzles still emits one valid record for every requested day, all
\* with distinct dates and all with that word as startWord; only the rest of
\* the chain may differ between dates.
OneSolvableSeven ==
  Cardinality({word \in Range(dictionary) : Len(word) = 7 /\ ReachesThree(word)}) = 1

C16_OneStartWord ==
  (pc # "buildEngine" /\ OneSolvableSeven) =>
    /\ pc # "failed"
    /\ Len(validSevenLetterWords) = 1
    /\ \A k \in 1..Len(puzzles) :
         /\ puzzles[k].startWord = validSevenLetterWords[1]
         /\ ChainShape(puzzles[k].words)
    /\ DatesFollow(puzzles)
    /\ output.written =>
         Len(output.puzzles) = options.days /\ output.puzzles = puzzles

\* with one solvable word, two records were written whose chains differ
C16_Witness ==
  /\ OneSolvableSeven
  /\ output.written
  /\ Len(output.puzzles) = 2
  /\ output.puzzles[1].startWord = output.puzzles[2].startWord
  /\ output.puzzles[1].words # output.puzzles[2].words
  /\ output.puzzles[1].date # output.puzzles[2].date

\* C17: the record emitted for a date D depends only on D and the
\* dictionary: it is the same whatever start date and day count the request
\* had, and whatever other dates were generated before it in the same run.
SameForSameDate(records, others) ==
  \A j \in 1..Len(records), k \in 1..Len(others) :
    records[j].date = others[k].date => records[j] = others[k]

C17_RecordDependsOnDateOnly ==
  (earlier.ran /\ earlier.output.written) =>
    SameForSameDate(puzzles, earlier.output.puzzles)

\* a date was the first of one request and the second of another, with
\* another start date and another day count
C17_Witness ==
  /\ earlier.ran
  /\ earlier.output.written
  /\ output.written
  /\ output.days # earlier.output.days
  /\ output.startDate # earlier.output.startDate
  /\ Len(output.puzzles) = 2
  /\ output.puzzles[2].date = earlier.output.puzzles[1].date

\* two words made of the same letters, each as many times
SameLetters(a, b) ==
  /\ Len(a) = Len(b)
  /\ \A c \in Range(a) \cup Range(b) : CountOf(a, c) = CountOf(b, c)

\* key is the sorted-letter signature of the word
IsSignatureOf(key, word) ==
  /\ SameLetters(key, word)
  /\ \A i \in 1..(Len(key) - 1) : key[i] <= key[i + 1]

\* C18: once buildEngine has built the bucket index, every dictionary word is
\* in exactly one bucket, the one keyed by its own sorted-letter signature,
\* each bucket holds exactly the dictionary words with that signature, and
\* no later getNextWords, isSolvable or buildChain call adds or changes one.
C18_BucketsPartitionDictionary ==
  pc # "buildEngine" =>
    /\ \A word \in Range(dictionary) :
         \E key \in DOMAIN buckets :
           /\ IsSignatureOf(key, word)
           /\ \A other \in DOMAIN buckets :
                word \in Range(buckets[other]) <=> other = key
    /\ \A key \in DOMAIN buckets :
         /\ Range(buckets[key]) =
              {word \in Range(dictionary) : IsSignatureOf(key, word)}
         /\ buckets[key] # <<>>
         /\ NoDuplicates(buckets[key])

\* the three functions were called, buildChain twice, on a word whose next
\* words come from a bucket of two words
C18_Witness ==
  /\ \A key \in {<<"getNextWords", <<>>>>, <<"isSolvable", <<>>>>} \cup
                {<<"buildChain", seed>> : seed \in CallSeeds} :
       key \in DOMAIN seen
  /\ call.again
  /\ \E key \in DOMAIN buckets :
       /\ Len(buckets[key]) = 2
       /\ Range(buckets[key]) \subseteq Range(nextWordCache[call.word])

\* the place of a word in a sequence that holds it
PositionIn(seq, word) == CHOOSE i \in 1..Len(seq) : seq[i] = word

\* buckets.get(signature) holds exactly the dictionary words with the
\* signature
HoldsItsWords(key) ==
  Range(buckets[key]) = {word \in Range(dictionary) : IsSignatureOf(key, word)}

\* C19 as claimed: a lookup in the bucket index by a signature returns the
\* dictionary words sharing that signature in sorted order, whatever the
\* order of the words in the input.
C19_BucketsAreSorted ==
  \A key \in DOMAIN buckets : HoldsItsWords(key) /\ IsAscending(buckets[key])

\* C19 as amended: a lookup in the bucket index by a signature returns the
\* dictionary words sharing that signature in the order in which they first
\* appear in the input, which is the order of the dictionary.
C19_BucketsInInputOrder ==
  \A key \in DOMAIN buckets :
    /\ HoldsItsWords(key)
    /\ \A i, j \in 1..Len(buckets[key]) :
         i < j => PositionIn(dictionary, buckets[key][i])
                    < PositionIn(dictionary, buckets[key][j])

\* a bucket of two words that an input holds in descending order
C19_Witness ==
  \E key \in DOMAIN buckets :
    /\ Len(buckets[key]) = 2
    /\ StringLess(buckets[key][2], buckets[key][1])

\* isSolvable has answered for the word, and the answer is the right one and
\* decides whether the word is a start word
Decided(word) ==
  /\ word \in DOMAIN solvableMemo
  /\ solvableMemo[word] <=> ReachesThree(word)
  /\ solvableMemo[word] <=> word \in Range(validSevenLetterWords)

\* C20: in every run, solvability has been decided for every 7-letter
\* dictionary word before the first buildChain call for any date: no
\* buildChain call comes before the end of that pass.
C20_PassBeforeChains ==
  (draw.drawn \/ puzzles # <<>> \/ pc \in {"generatePuzzles", "done"}) =>
    \A word \in Range(dictionary) : Len(word) = 7 => Decided(word)

\* the first chain was built when two 7-letter words had been decided, one
\* solvable and one not
C20_Witness ==
  /\ draw.drawn
  /\ Len(puzzles) = 1
  /\ \E word, other \in Range(dictionary) :
       /\ Len(word) = 7
       /\ Len(other) = 7
       /\ Decided(word) /\ solvableMemo[word]
       /\ Decided(other) /\ ~solvableMemo[other]

\* the first draw of a generator made from the date's string and nothing else
FirstDraw(dateString) == random(stringToSeed(dateString))

\* the start word that draw selects
StartFromDate(dateString) ==
  validSevenLetterWords[FloorMul(FirstDraw(dateString).value,
                                 Len(validSevenLetterWords)) + 1]

\* the candidates of the start word in the order the second and later draws
\* of that generator shuffle them into
ShuffledByLaterDraws(dateString) ==
  shuffled(NextWordsNow(StartFromDate(dateString)), FirstDraw(dateString).seed).copy

\* the first of a sequence of words that is solvable
RECURSIVE FirstSolvable(_)
FirstSolvable(candidates) ==
  IF candidates = <<>> THEN <<>>
  ELSE IF ReachesThree(Head(candidates)) THEN Head(candidates)
  ELSE FirstSolvable(Tail(candidates))

\* the chain built for the start word by the draws after the first
ChainFromDate(dateString) ==
  buildChain(StartFromDate(dateString), buckets, EmptyMap,
             FirstDraw(dateString).seed).chain

\* C21: for each date generatePuzzles makes one new generator seeded from
\* that date's string only; its first draw selects the start word and the
\* later draws of the same instance drive the shuffles of buildChain for the
\* date; no generator is used for more than one date.
C21_OneGeneratorPerDate ==
  /\ \A k \in 1..Len(puzzles) :
       /\ puzzles[k].startWord = StartFromDate(puzzles[k].date)
       /\ puzzles[k].words[2] = FirstSolvable(ShuffledByLaterDraws(puzzles[k].date))
       /\ puzzles[k].words = ChainFromDate(puzzles[k].date)
  /\ (draw.drawn /\ puzzles # <<>>) =>
       draw.value = FirstDraw(puzzles[Len(puzzles)].date).value

\* for the second date of a run, the later draws order the candidates
\* otherwise than the draws of a generator made anew would
C21_Witness ==
  /\ Len(puzzles) = 2
  /\ shuffled(NextWordsNow(puzzles[2].startWord), stringToSeed(puzzles[2].date)).copy
       # ShuffledByLaterDraws(puzzles[2].date)
  /\ buildChain(puzzles[2].startWord, buckets, EmptyMap,
                stringToSeed(puzzles[2].date)).chain # puzzles[2].words

\* the state of a generator after k draws
RECURSIVE AfterDraws(_, _)
AfterDraws(seed, k) ==
  IF Computed(seed) /\ k = 0 THEN seed ELSE AfterDraws(Add32(seed, Increment), k - 1)

\* the numerator of the k-th value a generator gives, k from 1
DrawValue(seed, k) == random(AfterDraws(seed, k - 1)).value

\* an array with the items at the 0-based positions i and j exchanged
Exchanged(array, i, j) ==
  [p \in 1..Len(array) |->
     IF p = i + 1 THEN array[j + 1] ELSE IF p = j + 1 THEN array[i + 1] ELSE array[p]]

\* Fisher-Yates: step t, from 1, exchanges the position i = n - t with the
\* position floor(r * (i + 1)), r the t-th draw; there are n - 1 steps
RECURSIVE FisherYates(_, _, _)
FisherYates(array, t, seed) ==
  IF t > Len(array) - 1 THEN array
  ELSE FisherYates(Exchanged(array, Len(array) - t,
                             FloorMul(DrawValue(seed, t), Len(array) - t + 1)),
                   t + 1, seed)

\* as many draws as max(n - 1, 0)
DrawsFor(items) == IF Len(items) > 0 THEN Len(items) - 1 ELSE 0

\* C22: shuffled(items, random) returns a permutation of items, the same
\* elements each as many times, computed by Fisher-Yates: for i from n-1 down
\* to 1 it swaps position i with position floor(r*(i+1)) for the next draw r,
\* and it consumes exactly max(n-1, 0) draws, in order.
C22_ShuffledIsFisherYates ==
  call.op = "shuffled" =>
    /\ Len(call.result.copy) = Len(call.word)
    /\ \A e \in Range(call.word) \cup Range(call.result.copy) :
         CountOf(call.result.copy, e) = CountOf(call.word, e)
    /\ call.result.copy = FisherYates(call.word, 1, call.seed)
    /\ call.result.seed = AfterDraws(call.seed, DrawsFor(call.word))
    /\ call.result.items = call.word

\* four items, two of them equal, came back in another order, the last one
\* moved by the first draw
C22_Witness ==
  /\ call.op = "shuffled"
  /\ Len(call.word) = 4
  /\ Cardinality(Range(call.word)) = 3
  /\ call.result.copy # call.word
  /\ call.result.copy[4] # call.word[4]
  /\ FloorMul(DrawValue(call.seed, 1), 4) < 3

\* the draws a search uses up below a word from which no path leads to a
\* 3-letter word: every candidate is tried at every level, so each word met
\* costs the draws of one shuffle of its next words
RECURSIVE DrawsBelow(_)
RECURSIVE DrawsBelowAll(_)
DrawsBelow(word) ==
  IF Len(word) = 3 THEN 0
  ELSE DrawsFor(NextWordsNow(word)) + DrawsBelowAll(NextWordsNow(word))

DrawsBelowAll(candidates) ==
  IF candidates = <<>> THEN 0
  ELSE DrawsBelow(Head(candidates)) + DrawsBelowAll(Tail(candidates))

\* the place of the first word of a sequence from which a path leads to a
\* 3-letter word, or 0
FirstWithPath(order) ==
  IF \E k \in 1..Len(order) : ReachesThree(order[k])
  THEN CHOOSE k \in 1..Len(order) :
         /\ ReachesThree(order[k])
         /\ \A j \in 1..(k - 1) : ~ReachesThree(order[j])
  ELSE 0

\* The chain the claim describes: at each word the candidates are shuffled
\* by the generator at hand, the words before the first one with a path are
\* tried in vain, and the search goes on from that first one.
RECURSIVE ChainByFirstWithPath(_, _)
ChainAfterShuffle(word, order, seed) ==
  IF FirstWithPath(order) = 0 THEN NoChain
  ELSE <<word>> \o
       ChainByFirstWithPath(order[FirstWithPath(order)],
                            AfterDraws(seed,
                                       DrawsBelowAll(SubSeq(order, 1,
                                                            FirstWithPath(order) - 1))))

ChainByFirstWithPath(word, seed) ==
  IF Len(word) = 3 THEN <<word>>
  ELSE ChainAfterShuffle(word, shuffled(NextWordsNow(word), seed).copy,
                         AfterDraws(seed, DrawsFor(NextWordsNow(word))))

\* C23: at every word buildChain's search visits, the next word of the
\* returned chain is the first word, in the shuffled order of
\* getNextWords(word), from which a path to a 3-letter word exists; every
\* candidate before it in that order was tried and has no such path.
C23_FirstCandidateWithPath ==
  call.op = "buildChain" =>
    call.result = ChainByFirstWithPath(call.word, call.seed)

\* a chain was built whose second word is not the first of the shuffled
\* candidates, nor the first of getNextWords
C23_Witness ==
  /\ call.op = "buildChain"
  /\ Len(call.result) = 5
  /\ FirstWithPath(shuffled(NextWordsNow(call.word), call.seed).copy) > 1
  /\ call.result[2] # NextWordsNow(call.word)[1]

\* some sequence of one-letter deletions, each giving a dictionary word, leads
\* from the word to a 3-letter dictionary word; the sequence may be empty
RECURSIVE ReachesDictionaryThree(_)
ReachesDictionaryThree(word) ==
  \/ Len(word) = 3 /\ InDictionary(word)
  \/ \E next \in Range(dictionary) :
       OneLetterRemoved(word, next) /\ ReachesDictionaryThree(next)

\* every candidate at every level below the word was tried: the search asked
\* getNextWords about each word of more than 3 letters that it can come to
RECURSIVE AllTriedBelow(_)
AllTriedBelow(word) ==
  \/ Len(word) = 3
  \/ /\ word \in DOMAIN nextWordCache
     /\ \A next \in Range(NextWordsNow(word)) : AllTriedBelow(next)

\* what a buildChain call that finds no chain leaves behind: null, every
\* candidate tried, and no error
ReturnedNull ==
  /\ call.result = NoChain
  /\ AllTriedBelow(call.word)
  /\ error = "none"

\* C24 as stated: buildChain called on any word from which no sequence of
\* one-letter deletions reaches a 3-letter dictionary word returns null, and
\* for every dictionary word W buildChain(W) returns a chain exactly when
\* isSolvable(W) is true.
C24_NullWithoutDictionaryPath ==
  call.op = "buildChain" =>
    /\ ~ReachesDictionaryThree(call.word) => ReturnedNull
    /\ InDictionary(call.word) =>
         (call.result # NoChain <=> SolvableNow(call.word))

\* C24: buildChain called on a dictionary word, or on a word that has not 3
\* letters, from which no sequence of one-letter deletions reaches a 3-letter
\* dictionary word returns null after trying every candidate at every level,
\* without raising an error; for every dictionary word W, buildChain(W)
\* returns a chain exactly when isSolvable(W) is true.  A 3-letter word that
\* is not in the dictionary is returned as a chain of its own.
C24_ChainIffSolvable ==
  call.op = "buildChain" =>
    /\ (~ReachesDictionaryThree(call.word)
          /\ (InDictionary(call.word) \/ Len(call.word) # 3)) => ReturnedNull
    /\ (~InDictionary(call.word) /\ Len(call.word) = 3) =>
         call.result = <<call.word>>
    /\ InDictionary(call.word) =>
         (call.result # NoChain <=> SolvableNow(call.word))

\* buildChain returned null for a 7-letter dictionary word that has a
\* candidate, which the search went into
C24_Witness ==
  /\ call.op = "buildChain"
  /\ InDictionary(call.word)
  /\ Len(call.word) = 7
  /\ call.result = NoChain
  /\ ~SolvableNow(call.word)
  /\ \E next \in Range(NextWordsNow(call.word)) : next \in DOMAIN nextWordCache

\* every entry of a map is an entry of the other, with the same value
KeepsEntries(before, after) ==
  \A key \in DOMAIN before : key \in DOMAIN after /\ after[key] = before[key]

\* C25: the reachability cache and the solvability memo are write-once per
\* key: once an entry for a word is stored, no later getNextWords, isSolvable
\* or buildChain call, for any date, replaces, changes or removes it.
C25_CachesWriteOnce ==
  [][/\ KeepsEntries(nextWordCache, nextWordCache')
     /\ KeepsEntries(solvableMemo, solvableMemo')]_vars

\* buildChain was called a second time with the generator of a date, on a
\* word whose cached next words the shuffle puts into another order, with
\* answers in the memo, after getNextWords and isSolvable were called
C25_Witness ==
  /\ call.op = "buildChain"
  /\ call.again
  /\ call.word \in DOMAIN nextWordCache
  /\ shuffled(nextWordCache[call.word], call.seed).copy # nextWordCache[call.word]
  /\ DOMAIN solvableMemo # {}
  /\ {<<"getNextWords", <<>>>>, <<"isSolvable", <<>>>>} \subseteq DOMAIN seen

\* the longest path looked for: longer than any recursion from a word of
\* MaxLength letters may be
DepthLooked == MaxLength + 1

\* The paths the recursion of isSolvable and dfs can follow from a word: each
\* recursive call is on a word of getNextWords(word) (lines 255-256 and
\* 273-274), and a 3-letter word is answered without a call (lines 247, 268).
\* Paths are followed for at most fuel further calls.
RECURSIVE PathsFrom(_, _)
PathsFrom(word, fuel) ==
  {<<word>>} \cup
  (IF fuel = 0 \/ Len(word) = 3 THEN {}
   ELSE UNION {{<<word>> \o path : path \in PathsFrom(next, fuel - 1)} :
                 next \in Range(NextWordsNow(word))})

\* C26: isSolvable and buildChain terminate: each recursive call is on a word
\* exactly one letter shorter, so the recursion from a 7-letter word is never
\* more than 5 levels deep and no word is met twice along a path.
C26_RecursionShortens ==
  call.op \in {"isSolvable", "buildChain"} =>
    \A path \in PathsFrom(call.word, DepthLooked) :
      /\ \A i \in 2..Len(path) : Len(path[i]) = Len(path[i - 1]) - 1
      /\ NoDuplicates(path)
      /\ Len(call.word) = 7 => Len(path) <= 5
      /\ Len(call.word) >= 3 => Len(path) <= Len(call.word) - 2

\* buildChain came back from a 7-letter word whose recursion went 5 levels
\* deep and had more than one path to follow
C26_Witness ==
  /\ call.op = "buildChain"
  /\ Len(call.word) = 7
  /\ Len(call.result) = 5
  /\ Cardinality({path \in PathsFrom(call.word, DepthLooked) : Len(path) = 5}) > 1

\* the normalized word set of an input written as an input of its own: each
\* word once, upper case, no surrounding whitespace, in ascending order
CanonicalInput(input) ==
  [i \in 1..Len(BuildDictionary(input)) |->
     [isString |-> TRUE, chars |-> SortStrings(BuildDictionary(input))[i]]]

\* what buildEngine makes of an input: the bucket index, validSevenLetterWords
\* and the cache its pass leaves
EngineFromPass(bk, pass) ==
  [buckets |-> bk, cache |-> pass.cache, valid |-> ValidSorted(pass.kept)]

EngineFromBuckets(dict, bk) ==
  EngineFromPass(bk, SolvablePass(dict, 1, bk, EmptyMap, EmptyMap, <<>>))

EngineOf(input) ==
  EngineFromBuckets(BuildDictionary(input), BuildBuckets(BuildDictionary(input)))

\* the record generatePuzzles makes for a date with an engine
RecordFromStart(engine, dateString, first, startWord) ==
  PuzzleRecord(dateString, startWord,
               buildChain(startWord, engine.buckets, engine.cache,
                          ChainGenerator(PuzzleSeed(dateString), first)).chain)

RecordFromDraw(engine, dateString, first) ==
  RecordFromStart(engine, dateString, first,
                  engine.valid[FloorMul(first.value, Len(engine.valid)) + 1])

RecordOf(engine, dateString) ==
  RecordFromDraw(engine, dateString, random(PuzzleSeed(dateString)))

\* the engine's answers are those of another engine
SameAnswers(engine) ==
  /\ validSevenLetterWords = engine.valid
  /\ \A word \in CallWords :
       NextWordsNow(word) = getNextWords(word, engine.buckets, engine.cache).result
  /\ \A i \in 1..Len(puzzles) : puzzles[i] = RecordOf(engine, puzzles[i].date)

\* C28: the records produced depend only on the normalized word set:
\* permuting the input, repeating entries, or changing their case or
\* surrounding whitespace leaves validSevenLetterWords, every getNextWords
\* result and every record as they are for the word set given in ascending
\* order, each word once, in upper case and trimmed.
C28_DependsOnWordSetOnly ==
  pc # "buildEngine" => SameAnswers(EngineOf(CanonicalInput(words)))

\* records were made from an input that is not its word set in ascending
\* order: it holds an entry in lower case between whitespace and an entry
\* twice, and two words that are valid start words stand in descending order
C28_Witness ==
  /\ Len(puzzles) = options.days
  /\ \E i, j \in 1..Len(words) :
       /\ i < j
       /\ words[i].isString /\ words[j].isString
       /\ ToUpperCase(Trim(words[i].chars)) \in Range(validSevenLetterWords)
       /\ ToUpperCase(Trim(words[j].chars)) \in Range(validSevenLetterWords)
       /\ StringLess(ToUpperCase(Trim(words[j].chars)),
                     ToUpperCase(Trim(words[i].chars)))
  /\ \E i \in 1..Len(words) :
       /\ words[i].isString
       /\ words[i].chars # ToUpperCase(Trim(words[i].chars))
       /\ ToUpperCase(Trim(words[i].chars)) \in Range(dictionary)
  /\ \E i, j \in 1..Len(words) : i # j /\ words[i] = words[j]

(***************************************************************************)
(* The page that shows the puzzles: normalizePuzzle                        *)
(***************************************************************************)
\* const TARGET_LENGTHS = [6, 5, 4, 3]
TARGET_LENGTHS == <<6, 5, 4, 3>>

\* /^[A-Z]+$/.test(normalized)
IsUpperLetters(chars) ==
  chars # <<>> /\ \A i \in 1..Len(chars) : chars[i] \in 65..90

\* normalizeWord(value, expectedLength) for a string value; '' is <<>>, and an
\* expectedLength of 0 is none
normalizeWord(value, expectedLength) ==
  IF ~IsUpperLetters(ToUpperCase(Trim(value))) THEN <<>>
  ELSE IF expectedLength # 0 /\ Len(ToUpperCase(Trim(value))) # expectedLength
  THEN <<>>
  ELSE ToUpperCase(Trim(value))

\* /^\d{4}-\d{2}-\d{2}$/.test(date)
IsDateForm(date) ==
  /\ Len(date) = 10
  /\ \A i \in {1, 2, 3, 4, 6, 7, 9, 10} : date[i] \in 48..57
  /\ date[5] = 45
  /\ date[8] = 45

\* entry.words[index] for a 0-based index: undefined past the end, which
\* normalizeWord answers with ''
WordAt(entryWords, index) ==
  IF index + 1 <= Len(entryWords) THEN entryWords[index + 1] ELSE <<>>

\* the null normalizePuzzle returns
NullPuzzle == [isNull |-> TRUE]

\* normalizeWord(entry.startWord, 7) || normalizeWord(entry.words[0], 7)
NormalizedStart(entry) ==
  IF normalizeWord(entry.startWord, 7) # <<>> THEN normalizeWord(entry.startWord, 7)
  ELSE normalizeWord(WordAt(entry.words, 0), 7)

\* targetWords as read from entry.solution
TargetsOfSolution(entry) ==
  <<normalizeWord(entry.solution.six, 6), normalizeWord(entry.solution.five, 5),
    normalizeWord(entry.solution.four, 4), normalizeWord(entry.solution.three, 3)>>

\* targetWords as read from entry.words
TargetsOfWords(entry) ==
  [index \in 1..4 |-> normalizeWord(WordAt(entry.words, index), TARGET_LENGTHS[index])]

\* targetWords.some((word) => !word)
SomeMissing(targetWords) == \E i \in 1..Len(targetWords) : targetWords[i] = <<>>

NormalizedTargets(entry) ==
  IF SomeMissing(TargetsOfSolution(entry)) THEN TargetsOfWords(entry)
  ELSE TargetsOfSolution(entry)

\* normalizePuzzle(entry) for an entry of the generator's output, whose
\* fields are strings: the same function in both versions of the page
normalizePuzzle(entry) ==
  IF ~IsDateForm(entry.date) THEN NullPuzzle
  ELSE IF NormalizedStart(entry) = <<>> \/ SomeMissing(NormalizedTargets(entry))
  THEN NullPuzzle
  ELSE [date |-> entry.date, startWord |-> NormalizedStart(entry),
        targetWords |-> NormalizedTargets(entry)]

\* start dates at the ends of the years written with 4 digits; parseStartDate
\* accepts them all, as new Date(year, ...) takes a year from 100 on as it is
YearEdgeDates ==
  {[y |-> 999, m |-> 12, d |-> 31],
   [y |-> 2024, m |-> 2, d |-> 28],
   [y |-> 9999, m |-> 12, d |-> 31]}

\* the program asked for dates at those ends
InitAnyYear ==
  /\ \E kept \in KeptSets, reversed \in BOOLEAN :
       words = Input(kept, reversed)
  /\ \E startDate \in YearEdgeDates, days \in 1..MaxDays :
       options = [startDate |-> startDate, days |-> days]
  /\ now = 1
  /\ earlier = NoRun
  /\ call = NoCall
  /\ seen = EmptyMap
  /\ page = PageClosed
  /\ Fresh

SpecAnyYear == InitAnyYear /\ [][Next]_vars

\* the puzzle the page is to make of a record
PuzzleOfRecord(record) ==
  [date |-> record.date, startWord |-> record.words[1],
   targetWords |-> SubSeq(record.words, 2, 5)]

\* C29: every emitted record is accepted by the page's normalizePuzzle: for
\* each record of generatePuzzles it returns a puzzle, not null, with the
\* same date, the chain's first word as startWord and the chain's 2nd to 5th
\* words as targetWords.
C29_EveryRecordAccepted ==
  \A i \in 1..Len(puzzles) : normalizePuzzle(puzzles[i]) = PuzzleOfRecord(puzzles[i])

\* C29 for the records whose year is written with 4 digits only
C29_AcceptedWithFourDigitYear ==
  \A i \in 1..Len(puzzles) :
    DateOf(puzzles[i].date).y \in 1000..9999 =>
      normalizePuzzle(puzzles[i]) = PuzzleOfRecord(puzzles[i])

\* records of the years 1000 and 9999 were accepted
C29_Witness ==
  /\ pc = "done"
  /\ \E i \in 1..Len(puzzles) :
       /\ DateOf(puzzles[i].date).y \in {1000, 9999}
       /\ normalizePuzzle(puzzles[i]) = PuzzleOfRecord(puzzles[i])

(***************************************************************************)
(* The page: src/App.jsx ("App") and the later version of it ("part_001")  *)
(* A value that may be absent (null, undefined, a missing key) is a        *)
(* sequence of no element, a present one a sequence of one.                *)
(***************************************************************************)
Versions == {"App", "part_001"}

\* const MAX_RETRIES: 3 in App.jsx, 2 in the later version
MAX_RETRIES(version) == IF version = "App" THEN 3 ELSE 2

\* puzzles.json: the records of two dates, as the generator writes them
RAW_PUZZLES ==
  <<PuzzleRecord(getLocalDateString([y |-> 2024, m |-> 2, d |-> 28]), Pool[2],
                 <<Pool[2], Pool[8], Pool[4], Pool[6], Pool[1]>>),
    PuzzleRecord(getLocalDateString([y |-> 2024, m |-> 2, d |-> 29]), Pool[2],
                 <<Pool[2], Pool[3], Pool[9], Pool[6], Pool[10]>>)>>

\* RAW_PUZZLES.map(normalizePuzzle).filter(Boolean)
NORMALIZED_PUZZLES ==
  SelectSeq([i \in 1..Len(RAW_PUZZLES) |-> normalizePuzzle(RAW_PUZZLES[i])],
            LAMBDA entry : entry # NullPuzzle)

PUZZLE_DATES == [i \in 1..Len(NORMALIZED_PUZZLES) |-> NORMALIZED_PUZZLES[i].date]

\* DAILY_PUZZLES.get(date) ?? null; of two entries of one date the Map keeps
\* the later
PuzzleOn(date) ==
  IF date \in Range(PUZZLE_DATES)
  THEN NORMALIZED_PUZZLES[CHOOSE i \in 1..Len(PUZZLE_DATES) :
                            /\ PUZZLE_DATES[i] = date
                            /\ \A j \in (i + 1)..Len(PUZZLE_DATES) :
                                 PUZZLE_DATES[j] # date]
  ELSE NullPuzzle

\* pickRandomPuzzleDate(excludeDate): the dates it may return; '' is <<>>
pickRandomPuzzleDate(excludeDate) ==
  IF Len(PUZZLE_DATES) = 0 THEN {<<>>}
  ELSE IF Len(PUZZLE_DATES) = 1 THEN {PUZZLE_DATES[1]}
  ELSE Range(PUZZLE_DATES) \ {excludeDate}

createEmptyAttemptsByStep == [step \in 1..4 |-> <<>>]

\* createEmptyState(); totalAttempts is a field of App.jsx only
createEmptyState ==
  [guesses |-> <<>>, attemptsByStep |-> createEmptyAttemptsByStep,
   totalAttempts |-> 0, lockedOut |-> FALSE]

\* the loop of loadStoredState that keeps the stored guesses up to the first
\* that is not the target word of its row; step is 1-based
RECURSIVE ValidGuesses(_, _, _, _)
ValidGuesses(parsedGuesses, targetWords, step, validGuesses) ==
  IF step > Len(TARGET_LENGTHS) THEN validGuesses
  ELSE IF normalizeWord(WordAt(parsedGuesses, step - 1), TARGET_LENGTHS[step]) = <<>>
          \/ normalizeWord(WordAt(parsedGuesses, step - 1), TARGET_LENGTHS[step])
               # targetWords[step]
  THEN validGuesses
  ELSE ValidGuesses(parsedGuesses, targetWords, step + 1,
                    Append(validGuesses,
                           normalizeWord(WordAt(parsedGuesses, step - 1),
                                         TARGET_LENGTHS[step])))

\* the test that ends the loop over the stored attempts of a row: in App.jsx
\* on the attempts of all rows, in the later version on those of the row
AttemptsFull(version, loaded, step) ==
  IF version = "App" THEN loaded.totalAttempts >= MAX_RETRIES(version)
  ELSE Len(loaded.attemptsByStep[step]) >= MAX_RETRIES(version)

\* the loop over the stored attempts of one row; loaded holds attemptsByStep
\* and totalAttempts so far
RECURSIVE LoadRow(_, _, _, _, _, _)
LoadRow(version, rowAttempts, k, step, targetWord, loaded) ==
  IF k > Len(rowAttempts) \/ AttemptsFull(version, loaded, step) THEN loaded
  ELSE IF normalizeWord(rowAttempts[k], TARGET_LENGTHS[step]) \in {<<>>, targetWord}
  THEN LoadRow(version, rowAttempts, k + 1, step, targetWord, loaded)
  ELSE LoadRow(version, rowAttempts, k + 1, step, targetWord,
               [attemptsByStep |->
                  [loaded.attemptsByStep EXCEPT
                     ![step] = Append(@, normalizeWord(rowAttempts[k],
                                                       TARGET_LENGTHS[step]))],
                totalAttempts |-> loaded.totalAttempts + 1])

\* the loop over the rows of the stored attemptsByStep; App.jsx leaves it
\* (break outer) when the attempts of all rows are full
RECURSIVE LoadRows(_, _, _, _, _)
LoadRows(version, rawAttemptsByStep, step, targetWords, loaded) ==
  IF step > Len(TARGET_LENGTHS) THEN loaded
  ELSE IF version = "App" /\ AttemptsFull(version, loaded, step) /\
          WordAt(rawAttemptsByStep, step - 1) # <<>>
  THEN loaded
  ELSE LoadRows(version, rawAttemptsByStep, step + 1, targetWords,
                LoadRow(version, WordAt(rawAttemptsByStep, step - 1), 1, step,
                        targetWords[step], loaded))

\* the attempts read from the stored state: from attemptsByStep if it is
\* there, else from the attempts and activeStep of the older format
LoadedAttempts(version, parsed, targetWords) ==
  IF parsed.attemptsByStep # <<>>
  THEN LoadRows(version, parsed.attemptsByStep[1], 1, targetWords,
                [attemptsByStep |-> createEmptyAttemptsByStep, totalAttempts |-> 0])
  ELSE IF parsed.activeStep # <<>> /\ parsed.activeStep[1] \in 0..3
  THEN LoadRow(version, parsed.attempts, 1, parsed.activeStep[1] + 1,
               targetWords[parsed.activeStep[1] + 1],
               [attemptsByStep |-> createEmptyAttemptsByStep, totalAttempts |-> 0])
  ELSE [attemptsByStep |-> createEmptyAttemptsByStep, totalAttempts |-> 0]

Min(a, b) == IF a < b THEN a ELSE b

Max(a, b) == IF a > b THEN a ELSE b

\* totalAttempts after App.jsx has looked at parsed.totalAttempts
LoadedTotal(version, parsed, total) ==
  IF version = "App" /\ parsed.totalAttempts # <<>>
  THEN Min(MAX_RETRIES(version), Max(total, parsed.totalAttempts[1]))
  ELSE total

\* the attempts that lock the round when loaded: all of them in App.jsx,
\* those of the active row in the later version
LoadedActiveAttempts(version, validGuesses, attemptsByStep, total) ==
  IF version = "App" THEN total
  ELSE IF Len(validGuesses) < Len(TARGET_LENGTHS)
  THEN Len(attemptsByStep[Len(validGuesses) + 1])
  ELSE 0

\* the state returned for a round that no test of the guesses guards: a
\* solved round can come back locked
LoadedStateWithoutSolved(version, parsed, validGuesses, attempts, total) ==
  [guesses |-> validGuesses,
   attemptsByStep |-> attempts.attemptsByStep,
   totalAttempts |-> IF version = "App" THEN Min(MAX_RETRIES(version), total) ELSE 0,
   lockedOut |->
     \/ parsed.lockedOut
     \/ parsed.failed
     \/ LoadedActiveAttempts(version, validGuesses, attempts.attemptsByStep,
                             total) >= MAX_RETRIES(version)]

\* the state returned once the guesses and the attempts are read
LoadedState(version, parsed, validGuesses, attempts, total) ==
  [guesses |-> validGuesses,
   attemptsByStep |-> attempts.attemptsByStep,
   totalAttempts |-> IF version = "App" THEN Min(MAX_RETRIES(version), total) ELSE 0,
   lockedOut |->
     IF Len(validGuesses) >= Len(TARGET_LENGTHS) THEN FALSE
     ELSE \/ parsed.lockedOut
          \/ parsed.failed
          \/ LoadedActiveAttempts(version, validGuesses, attempts.attemptsByStep,
                                  total) >= MAX_RETRIES(version)]

LoadedFrom(version, parsed, puzzle, attempts) ==
  LoadedState(version, parsed,
              ValidGuesses(parsed.guesses, puzzle.targetWords, 1, <<>>),
              attempts, LoadedTotal(version, parsed, attempts.totalAttempts))

\* a stored value that is not JSON: JSON.parse throws and the catch of
\* loadStoredState returns the empty state
Unparseable == [text |-> <<123>>]

\* const storedMode: 'daily' unless parsed.mode is 'random'
StoredMode(parsed) == IF parsed.mode = "random" THEN "random" ELSE "daily"

\* const storedPuzzleDate: parsed.puzzleDate if it is a string, else
\* parsed.date; a puzzleDate that is not there is <<>>
StoredPuzzleDate(parsed) ==
  IF parsed.puzzleDate # <<>> THEN parsed.puzzleDate ELSE parsed.date

\* loadStoredState(puzzleDate, puzzle, mode), raw being what localStorage
\* holds under STORAGE_KEY
loadStoredState(version, puzzleDate, puzzle, mode, raw) ==
  IF raw = <<>> \/ raw = <<Unparseable>> THEN createEmptyState
  ELSE IF \/ StoredMode(raw[1]) # mode
          \/ StoredPuzzleDate(raw[1]) # puzzleDate
          \/ raw[1].startWord # puzzle.startWord
  THEN createEmptyState
  ELSE LoadedFrom(version, raw[1], puzzle,
                  LoadedAttempts(version, raw[1], puzzle.targetWords))

\* const puzzle = DAILY_PUZZLES.get(activePuzzleDate) ?? null
puzzle(p) == PuzzleOn(p.activePuzzleDate)

HasPuzzle(p) == puzzle(p) # NullPuzzle

\* const currentStep = guesses.length: the 0-based index of the active row
currentStep(p) == Len(p.guesses)

isComplete(p) == HasPuzzle(p) /\ currentStep(p) >= Len(TARGET_LENGTHS)

expectedLength(p) ==
  IF ~HasPuzzle(p) \/ isComplete(p) THEN 0 ELSE TARGET_LENGTHS[currentStep(p) + 1]

targetWord(p) ==
  IF ~HasPuzzle(p) \/ isComplete(p) THEN <<>>
  ELSE puzzle(p).targetWords[currentStep(p) + 1]

isAdvancing(p) == p.pendingAdvance # <<>>

\* isInputLocked without the lockout: the keys go on after the last retry
isInputLockedIgnoringLockout(p) ==
  \/ ~HasPuzzle(p)
  \/ isComplete(p)
  \/ p.version = "part_001" /\ (p.isHowToModalOpen \/ isAdvancing(p))

\* isInputLocked; the how-to modal and pendingAdvance are of the later version
isInputLocked(p) ==
  \/ ~HasPuzzle(p)
  \/ isComplete(p)
  \/ p.isLockedOut
  \/ p.version = "part_001" /\ (p.isHowToModalOpen \/ isAdvancing(p))

isRoundFinished(p) == isComplete(p) \/ p.isLockedOut

\* the state written without the wrong guesses
SavedWithoutAttempts(p) ==
  [mode |-> p.mode,
   date |-> p.currentDate,
   puzzleDate |-> p.activePuzzleDate,
   startWord |-> puzzle(p).startWord,
   guesses |-> p.guesses,
   attemptsByStep |-> <<>>,
   attempts |-> <<>>,
   activeStep |-> <<>>,
   lockedOut |-> p.isLockedOut,
   failed |-> FALSE,
   totalAttempts |-> IF p.version = "App" THEN <<p.totalAttemptsUsed>> ELSE <<>>]

\* what the effect that saves the state writes under STORAGE_KEY
Saved(p) ==
  [mode |-> p.mode,
   date |-> p.currentDate,
   puzzleDate |-> p.activePuzzleDate,
   startWord |-> puzzle(p).startWord,
   guesses |-> p.guesses,
   attemptsByStep |-> <<p.attemptsByStep>>,
   attempts |-> <<>>,
   activeStep |-> <<>>,
   lockedOut |-> p.isLockedOut,
   failed |-> FALSE,
   totalAttempts |-> IF p.version = "App" THEN <<p.totalAttemptsUsed>> ELSE <<>>]

\* The effect that saves the state, which runs after every render in which
\* the state has changed: without a puzzle it clears the stored state.
SaveEffect(p) ==
  [p EXCEPT !.storage = IF HasPuzzle(p) THEN <<Saved(p)>> ELSE <<>>]

\* pendingAdvance left as it is when the state is loaded
PendingKept(p) == p.pendingAdvance

\* setPendingAdvance(null) of the effect that loads the state
PendingCleared(p) == <<>>

\* the state after the effect that loads the stored state, loaded being what
\* loadStoredState or createEmptyState returned
HydratedWith(p, loaded) ==
  [p EXCEPT !.guesses = loaded.guesses,
            !.attemptsByStep = loaded.attemptsByStep,
            !.totalAttemptsUsed = loaded.totalAttempts,
            !.isLockedOut = loaded.lockedOut,
            !.inputValue = <<>>,
            !.pendingAdvance = PendingCleared(p)]

\* The effect of [activePuzzleDate, puzzle, roundSeed] on mount, followed by
\* the effect that saves what it loaded.  In the first render isHydrated is
\* false and the effect that saves returns at once, so nothing is written
\* before the loaded state is rendered: the two renders are one step.
HydrationEffect(p) ==
  SaveEffect(HydratedWith(p, IF HasPuzzle(p)
                             THEN loadStoredState(p.version, p.activePuzzleDate,
                                                  puzzle(p), p.mode, p.storage)
                             ELSE createEmptyState))

\* no render is waiting: the state shown is the state of the round
Settled(p) == p.rerender = <<>>

\* what the effect of [activePuzzleDate, puzzle, roundSeed] hands to the
\* state setters: the round loaded for the puzzle now active
LoadedRound(p) ==
  IF HasPuzzle(p)
  THEN loadStoredState(p.version, p.activePuzzleDate, puzzle(p), p.mode, p.storage)
  ELSE createEmptyState

\* The commit of the render that follows setActivePuzzleDate, p being the
\* state that render saw: the new activePuzzleDate and puzzle with the
\* guesses, attemptsByStep and isLockedOut of the round before, and
\* isHydrated true.  Its effects run in the order of the code: the first
\* reads localStorage and calls the state setters, which take effect in the
\* render after this one; the second, whose dependencies activePuzzleDate
\* and puzzle have changed, saves the state this render saw.
PuzzleChangeCommit(p) ==
  [SaveEffect(p) EXCEPT !.rerender = <<[loaded |-> LoadedRound(p), queued |-> <<>>]>>,
                        !.event = "change"]

\* The commit of the render that follows setRoundSeed: the first effect runs
\* as above, the second does not, none of its dependencies having changed.
ReseedCommit(p) ==
  [p EXCEPT !.rerender = <<[loaded |-> LoadedRound(p), queued |-> <<>>]>>,
            !.event = "change"]

\* the initial value of activePuzzleDate: the dates it may be
InitialPuzzleDates(mode, today, raw) ==
  IF mode = "daily" THEN {getLocalDateString(today)}
  ELSE IF raw = <<>> THEN pickRandomPuzzleDate(<<>>)
  ELSE IF /\ raw[1].mode = "random"
          /\ raw[1].puzzleDate # <<>>
          /\ raw[1].puzzleDate \in Range(PUZZLE_DATES)
          /\ Len(raw[1].guesses) < Len(TARGET_LENGTHS)
          /\ ~(raw[1].lockedOut \/ raw[1].failed)
  THEN {raw[1].puzzleDate}
  ELSE pickRandomPuzzleDate(<<>>)

\* the page as App() and its first effects leave it, for what the browser
\* holds: the version and mode of the build, the clock and localStorage
Mounted(old, activePuzzleDate) ==
  HydrationEffect(
    [open |-> TRUE,
     version |-> old.version,
     mode |-> old.mode,
     today |-> old.today,
     nights |-> old.nights,
     howToDismissed |-> old.howToDismissed,
     storage |-> old.storage,
     currentDate |-> getLocalDateString(old.today),
     activePuzzleDate |-> activePuzzleDate,
     guesses |-> <<>>,
     attemptsByStep |-> createEmptyAttemptsByStep,
     totalAttemptsUsed |-> 0,
     isLockedOut |-> FALSE,
     inputValue |-> <<>>,
     pendingAdvance |-> <<>>,
     isHowToModalOpen |-> old.version = "part_001" /\ ~old.howToDismissed,
     rerender |-> <<>>,
     event |-> "load"])

\* the browser before the page is opened, on the day of the later puzzle:
\* there is no puzzle for the days after it
Browser(version, mode, today, raw) ==
  [version |-> version, mode |-> mode,
   today |-> today, nights |-> 0,
   howToDismissed |-> FALSE, storage |-> raw]

\* the wrong guesses of all rows together
AttemptsOfAllRows(p) ==
  Len(p.attemptsByStep[1]) + Len(p.attemptsByStep[2])
    + Len(p.attemptsByStep[3]) + Len(p.attemptsByStep[4])

\* the wrong guesses that count against the player: totalAttemptsUsed in
\* App.jsx, attemptsByStep[currentStep].length in the later version
AttemptsCounted(p) ==
  IF p.version = "App" THEN p.totalAttemptsUsed
  ELSE Len(p.attemptsByStep[currentStep(p) + 1])

\* submitGuess for a guess that is the target word: App.jsx appends it to
\* guesses, the later version does so for the first row and sets
\* pendingAdvance for the others
Accepted(p, guess) ==
  IF p.version = "App" \/ currentStep(p) = 0
  THEN [p EXCEPT !.guesses = Append(@, guess), !.inputValue = <<>>,
                 !.event = "key"]
  ELSE [p EXCEPT !.pendingAdvance = <<[stepIndex |-> currentStep(p), guess |-> guess]>>,
                 !.inputValue = <<>>, !.event = "key"]

\* submitGuess for a wrong guess of the expected length, next being
\* Math.min(MAX_RETRIES, counted + 1)
Rejected(p, guess, next) ==
  [p EXCEPT !.attemptsByStep[currentStep(p) + 1] = Append(@, guess),
            !.totalAttemptsUsed = IF p.version = "App" THEN next ELSE @,
            !.inputValue = <<>>,
            !.isLockedOut = IF next >= MAX_RETRIES(p.version) THEN TRUE ELSE @,
            !.event = "key"]

\* submitGuess without the test of the length: a word of any other length
\* than the row's is recorded as a wrong guess
SubmitGuessOfAnyLength(p, guess) ==
  IF guess = targetWord(p) THEN Accepted(p, guess)
  ELSE Rejected(p, guess, Min(MAX_RETRIES(p.version), AttemptsCounted(p) + 1))

\* submitGuess() past its first three tests, which isInputLocked has made
\* already, guess being inputValue.trim().toUpperCase()
SubmitGuessOf(p, guess) ==
  IF Len(guess) # expectedLength(p) THEN [p EXCEPT !.event = "key"]
  ELSE IF guess = targetWord(p) THEN Accepted(p, guess)
  ELSE Rejected(p, guess, Min(MAX_RETRIES(p.version), AttemptsCounted(p) + 1))

submitGuess(p) == SubmitGuessOf(p, ToUpperCase(Trim(p.inputValue)))

\* the most often the clock passes midnight
MaxNights == 1

\* the letter keys pressed: A, B, N and S
KeyLetters == {65, 66, 78, 83}

\* the words typed, whole or in part: the target words of the puzzles and NANA
TypedWords ==
  UNION {Range(NORMALIZED_PUZZLES[i].targetWords) : i \in 1..Len(NORMALIZED_PUZZLES)}
    \cup {<<78, 65, 78, 65>>}

IsTyped(input, length) ==
  \E word \in TypedWords :
    Len(word) = length /\ Len(input) <= length /\ SubSeq(word, 1, Len(input)) = input

\* what the actions of the page leave alone
generatorVars ==
  <<words, options, now, earlier, pc, dictionary, buckets, nextWordCache,
    solvableMemo, validSevenLetterWords, offset, draw, puzzles, error, output,
    call, seen>>

\* handleGameKey(key) while isInputLocked: if (isInputLocked) return, for a
\* keydown or for a key that was pressed as the keyboard was being disabled
KeyIgnored ==
  /\ page.open
  /\ isInputLocked(page)
  /\ page' = [page EXCEPT !.event = "key"]
  /\ UNCHANGED generatorVars

\* handleGameKey(key) for a letter: a click on the on-screen keyboard or a
\* keydown
KeyLetter ==
  \E key \in KeyLetters :
    /\ page.open
    /\ Settled(page)
    /\ ~isInputLocked(page)
    /\ Len(page.inputValue) < expectedLength(page)
    /\ IsTyped(Append(page.inputValue, key), expectedLength(page))
    /\ page' = SaveEffect([page EXCEPT !.inputValue = Append(@, key),
                                       !.event = "key"])
    /\ UNCHANGED generatorVars

\* handleGameKey('BACKSPACE')
KeyBackspace ==
  /\ page.open
  /\ Settled(page)
  /\ ~isInputLocked(page)
  /\ page.inputValue # <<>>
  /\ page' = SaveEffect([page EXCEPT
                           !.inputValue = SubSeq(@, 1, Len(@) - 1),
                           !.event = "key"])
  /\ UNCHANGED generatorVars

\* handleGameKey('ENTER'): submitGuess()
KeyEnter ==
  /\ page.open
  /\ Settled(page)
  /\ ~isInputLocked(page)
  /\ page' = SaveEffect(submitGuess(page))
  /\ UNCHANGED generatorVars

\* the timer of the pendingAdvance effect fires, STEP_ADVANCE_MS after a
\* correct guess
AdvanceTimer ==
  /\ page.open
  /\ Settled(page)
  /\ isAdvancing(page)
  /\ page' = SaveEffect([page EXCEPT
                           !.guesses = Append(@, page.pendingAdvance[1].guess),
                           !.pendingAdvance = <<>>,
                           !.event = "timer"])
  /\ UNCHANGED generatorVars

\* The timer fires after the effects of the commit that changed the puzzle
\* and before the render of what they set: the cleanup that clears it runs
\* with that render, so its callback joins the queue of setGuesses behind
\* the loaded guesses.
AdvanceTimerBeforeRerender ==
  /\ page.open
  /\ ~Settled(page)
  /\ isAdvancing(page)
  /\ page.rerender[1].queued = <<>>
  /\ page' = [page EXCEPT !.rerender[1].queued = <<page.pendingAdvance[1].guess>>,
                          !.event = "timer"]
  /\ UNCHANGED generatorVars

\* The render of what the effect of [activePuzzleDate, puzzle, roundSeed]
\* set, and its effects: setGuesses(loaded.guesses) and the updates queued
\* behind it, setAttemptsByStep, setIsLockedOut, setInputValue('') and
\* setPendingAdvance(null), then the effect that saves the state.
Rerender ==
  /\ page.open
  /\ ~Settled(page)
  /\ page' =
       LET loaded == page.rerender[1].loaded
           queued == page.rerender[1].queued
       IN  SaveEffect(HydratedWith(
             [page EXCEPT !.rerender = <<>>, !.event = "load"],
             [loaded EXCEPT !.guesses = @ \o queued]))
  /\ UNCHANGED generatorVars

\* the clock passes midnight
DayPasses ==
  /\ page.open
  /\ page.nights < MaxNights
  /\ page' = [page EXCEPT !.today = DateAt(@, 1), !.nights = @ + 1]
  /\ UNCHANGED generatorVars

\* syncDate(), on the interval or on focus, when the date has changed
SyncDate ==
  /\ page.open
  /\ Settled(page)
  /\ getLocalDateString(page.today) # page.currentDate
  /\ page' =
       IF page.mode = "daily"
       THEN PuzzleChangeCommit([page EXCEPT
                                  !.storage = <<>>,
                                  !.activePuzzleDate = getLocalDateString(page.today),
                                  !.currentDate = getLocalDateString(page.today)])
       ELSE SaveEffect([page EXCEPT
                          !.currentDate = getLocalDateString(page.today),
                          !.event = "sync"])
  /\ UNCHANGED generatorVars

\* startNextRandomPuzzle(), the handler of the New Puzzle button, which is
\* there in random mode when the round is finished
StartNextRandomPuzzle ==
  /\ page.open
  /\ Settled(page)
  /\ page.mode = "random"
  /\ isRoundFinished(page)
  /\ \E nextPuzzleDate \in pickRandomPuzzleDate(page.activePuzzleDate) :
       /\ nextPuzzleDate # <<>>
       /\ page' = IF nextPuzzleDate = page.activePuzzleDate
                  THEN ReseedCommit([page EXCEPT !.storage = <<>>])
                  ELSE PuzzleChangeCommit([page EXCEPT
                                             !.storage = <<>>,
                                             !.activePuzzleDate = nextPuzzleDate])
  /\ UNCHANGED generatorVars

\* dismissHowToModal(), of the later version
DismissHowToModal ==
  /\ page.open
  /\ Settled(page)
  /\ page.version = "part_001"
  /\ page.isHowToModalOpen
  /\ page' = [page EXCEPT !.isHowToModalOpen = FALSE, !.howToDismissed = TRUE,
                          !.event = "howTo"]
  /\ UNCHANGED generatorVars

\* openHowToModal(), of the later version; the help button is pressed when
\* nothing has been typed into the row
OpenHowToModal ==
  /\ page.open
  /\ Settled(page)
  /\ page.version = "part_001"
  /\ ~page.isHowToModalOpen
  /\ page.inputValue = <<>>
  /\ page' = [page EXCEPT !.isHowToModalOpen = TRUE, !.event = "howTo"]
  /\ UNCHANGED generatorVars

\* The page is loaded again: App() runs anew on what localStorage holds,
\* between any two tasks of the browser.
Reload ==
  /\ page.open
  /\ \E activePuzzleDate \in InitialPuzzleDates(page.mode, page.today, page.storage) :
       page' = Mounted(page, activePuzzleDate)
  /\ UNCHANGED generatorVars

\* the days on which the page is opened: the two days of the book
StartDays == {[y |-> 2024, m |-> 2, d |-> 28], [y |-> 2024, m |-> 2, d |-> 29]}

\* the page is opened, in either version and mode, in a browser that holds
\* one of the given states under STORAGE_KEY
InitPageOn(stored) ==
  /\ words = [i \in 1..Len(ExampleWords) |->
                [isString |-> TRUE, chars |-> ExampleWords[i]]]
  /\ options = [startDate |-> [y |-> 2024, m |-> 2, d |-> 28], days |-> 1]
  /\ now = 1
  /\ earlier = NoRun
  /\ call = NoCall
  /\ seen = EmptyMap
  /\ Fresh
  /\ \E version \in Versions, mode \in {"daily", "random"}, today \in StartDays :
       \E raw \in stored[mode] :
         \E activePuzzleDate \in InitialPuzzleDates(mode, today, raw) :
           page = Mounted(Browser(version, mode, today, raw), activePuzzleDate)

\* localStorage holds nothing under STORAGE_KEY
NothingStored == [mode \in {"daily", "random"} |-> {<<>>}]

\* the page is opened for the first time
InitPage == InitPageOn(NothingStored)

NextPage ==
  \/ KeyIgnored
  \/ KeyLetter
  \/ KeyBackspace
  \/ KeyEnter
  \/ AdvanceTimer
  \/ AdvanceTimerBeforeRerender
  \/ Rerender
  \/ DayPasses
  \/ SyncDate
  \/ StartNextRandomPuzzle
  \/ DismissHowToModal
  \/ OpenHowToModal
  \/ Reload

SpecPage == InitPage /\ [][NextPage]_vars

\* the guesses of a state the page did not write, for a puzzle: the target
\* words of a puzzle of the book and one word more, or two of its own, the
\* first in lower case between whitespace and the second not of its row
ForeignGuesses(target) ==
  {other.targetWords \o <<other.startWord>> : other \in Range(NORMALIZED_PUZZLES)}
    \cup {<<Untidy(target.targetWords[1]), target.targetWords[3]>>}

\* its attempts: none; three wrong words in every row, with a count of the
\* other build; or, in the older format, those of the second row, a right
\* word among them, of a round that had failed
ForeignAttempts(target) ==
  {[byStep |-> <<>>, flat |-> <<>>, activeStep |-> <<>>, failed |-> FALSE,
    total |-> <<>>],
   [byStep |-> <<[step \in 1..4 |->
                    [k \in 1..3 |-> SubSeq(target.startWord, 1, TARGET_LENGTHS[step])]]>>,
    flat |-> <<>>, activeStep |-> <<>>, failed |-> FALSE, total |-> <<1>>],
   [byStep |-> <<>>,
    flat |-> <<SubSeq(target.startWord, 1, 5), target.targetWords[2],
               SubSeq(target.startWord, 2, 6)>>,
    activeStep |-> <<1>>, failed |-> TRUE, total |-> <<>>]}

ForeignStatesFor(mode, target) ==
  {[mode |-> mode,
    date |-> target.date,
    puzzleDate |-> target.date,
    startWord |-> target.startWord,
    guesses |-> guesses,
    attemptsByStep |-> attempts.byStep,
    attempts |-> attempts.flat,
    activeStep |-> attempts.activeStep,
    lockedOut |-> lockedOut,
    failed |-> attempts.failed,
    totalAttempts |-> attempts.total] :
     guesses \in ForeignGuesses(target),
     lockedOut \in BOOLEAN,
     attempts \in ForeignAttempts(target)}

\* What localStorage may hold that this build of the page did not write: the
\* state of the other build, of an older format, or one edited by hand, for
\* a puzzle of the book.
ForeignStates(mode) ==
  UNION {ForeignStatesFor(mode, target) : target \in Range(NORMALIZED_PUZZLES)}

\* nothing, or one of those states
AnythingStored ==
  [mode \in {"daily", "random"} |->
     {<<>>} \cup {<<raw>> : raw \in ForeignStates(mode)}]

\* the page is opened in a browser that holds a state it did not write
InitPageAnyStorage == InitPageOn(AnythingStored)

SpecPageAnyStorage == InitPageAnyStorage /\ [][NextPage]_vars

\* guesses is the beginning of the active puzzle's targetWords, and empty
\* when there is no puzzle
IsPrefixOfTargets(p) ==
  /\ Len(p.guesses) <= 4
  /\ IF HasPuzzle(p)
     THEN \A i \in 1..Len(p.guesses) : p.guesses[i] = puzzle(p).targetWords[i]
     ELSE p.guesses = <<>>

\* the correct guess that waits for the timer is the target word of the
\* active row
PendingIsTarget(p) ==
  isAdvancing(p) =>
    /\ p.version = "part_001"
    /\ currentStep(p) >= 1
    /\ p.pendingAdvance[1] = [stepIndex |-> currentStep(p), guess |-> targetWord(p)]

\* guesses grows, other than by a load, by the target word of the active
\* row alone, which was typed and entered, or was waiting for the timer
GrowsByOneAccepted(p, q) ==
  (q.event # "load" /\ q.guesses # p.guesses) =>
    /\ q.guesses = Append(p.guesses, targetWord(p))
    /\ targetWord(p) # <<>>
    /\ \/ q.event = "key" /\ ToUpperCase(Trim(p.inputValue)) = targetWord(p)
       \/ q.event = "timer" /\ isAdvancing(p)

\* C30: in both versions of the page, after any sequence of key events, timer
\* firings, loads from storage and puzzle changes, guesses is a prefix of
\* the active puzzle's targetWords: guesses[i] is targetWords[i] for every
\* i, its length is never more than 4, and it grows by exactly one word per
\* accepted correct guess.
C30_GuessesArePrefix ==
  /\ [](Settled(page) => IsPrefixOfTargets(page) /\ PendingIsTarget(page))
  /\ [][GrowsByOneAccepted(page, page')]_vars

\* the later version added the last target word when the timer fired, on a
\* puzzle whose stored state was not written by the page, with a wrong guess
\* on record
C30_Witness ==
  /\ page.version = "part_001"
  /\ page.event = "timer"
  /\ Len(page.guesses) = 4
  /\ IsPrefixOfTargets(page)
  /\ AttemptsOfAllRows(page) > 2

\* the rows before the active one were left with at most one wrong guess, the
\* rows after it have none, and the round is locked exactly when the active
\* row holds MAX_RETRIES wrong guesses
OneSecondChancePerRow(p) ==
  /\ \A step \in 1..4 :
       /\ step < currentStep(p) + 1 => Len(p.attemptsByStep[step]) <= 1
       /\ step > currentStep(p) + 1 => p.attemptsByStep[step] = <<>>
  /\ isComplete(p) => ~p.isLockedOut
  /\ ~isComplete(p) =>
       /\ Len(p.attemptsByStep[currentStep(p) + 1]) <= 2
       /\ p.isLockedOut <=> Len(p.attemptsByStep[currentStep(p) + 1]) = 2

\* a step that records a wrong guess records the guess entered, of the
\* length of the active row and not its target word, against the active row
\* only, and a step locks the round only by recording the row's second
RecordsOnActiveRow(p, q) ==
  /\ (q.event = "key" /\ q.attemptsByStep # p.attemptsByStep) =>
       /\ q.attemptsByStep =
            [p.attemptsByStep EXCEPT ![currentStep(p) + 1] = Append(@, p.inputValue)]
       /\ Len(p.inputValue) = expectedLength(p)
       /\ p.inputValue # targetWord(p)
       /\ q.guesses = p.guesses
  /\ (q.event # "load" /\ q.isLockedOut /\ ~p.isLockedOut) =>
       /\ q.attemptsByStep # p.attemptsByStep
       /\ Len(q.attemptsByStep[currentStep(p) + 1]) = 2
  /\ (q.event # "load" /\ p.isLockedOut) => q.isLockedOut

\* C27: in the later version of the page the player gets exactly one second
\* chance per row: a wrong full-length guess is recorded against the active
\* row only, the round is locked exactly when the active row's recorded wrong
\* guesses reach MAX_RETRIES (2), and wrong guesses recorded on earlier rows
\* never count toward a later row.
C27_OneSecondChancePerRow ==
  /\ [](page.version = "part_001" => MAX_RETRIES(page.version) = 2)
  /\ []((/\ page.version = "part_001"
          /\ page.event = "load"
          /\ page.mode = "daily"
          /\ page.nights = 0) => OneSecondChancePerRow(page))
  /\ [][(/\ page.version = "part_001"
         /\ Settled(page)
         /\ page'.event \in {"key", "timer", "howTo"}
         /\ OneSecondChancePerRow(page)) => OneSecondChancePerRow(page')]_vars
  /\ [][page.version = "part_001" => RecordsOnActiveRow(page, page')]_vars

\* the player has used the second chance of each of the first three rows
\* and made a wrong guess in the fourth, and the round is not locked
C27_Witness ==
  /\ page.version = "part_001"
  /\ currentStep(page) = 3
  /\ \A step \in 1..4 : Len(page.attemptsByStep[step]) = 1
  /\ ~page.isLockedOut
  /\ page.event = "key"

\* a key event on a round that is complete or locked out leaves guesses,
\* attemptsByStep, inputValue and isLockedOut as they were
FinishedRoundIgnoresKeys(p, q) ==
  (isRoundFinished(p) /\ q.event \in {"key", "timer", "howTo"}) =>
    /\ q.guesses = p.guesses
    /\ q.attemptsByStep = p.attemptsByStep
    /\ q.inputValue = p.inputValue
    /\ q.isLockedOut = p.isLockedOut
    /\ q.activePuzzleDate = p.activePuzzleDate

\* C31: in both versions a round is never both complete and locked out, and
\* once it is complete or locked out no key event (a letter, BACKSPACE or
\* ENTER) changes guesses, attemptsByStep, inputValue or the lockout flag
\* until the active puzzle changes or the round is reseeded.
C31_FinishedRoundIsFrozen ==
  /\ [](~(isComplete(page) /\ page.isLockedOut))
  /\ [][FinishedRoundIgnoresKeys(page, page')]_vars

\* a key was pressed on a complete round of the later version, where the last
\* word is added by the timer and not by a key
C31_Witness ==
  /\ page.version = "part_001"
  /\ isComplete(page)
  /\ Settled(page)
  /\ page.event = "key"

\* totalAttemptsUsed is the number of entries of attemptsByStep, at most
\* MAX_RETRIES, and the round is locked exactly when it is MAX_RETRIES
TotalIsAttemptsRecorded(p) ==
  /\ p.totalAttemptsUsed = AttemptsOfAllRows(p)
  /\ p.totalAttemptsUsed <= MAX_RETRIES(p.version)
  /\ p.isLockedOut <=> p.totalAttemptsUsed = MAX_RETRIES(p.version)

\* a key event changes totalAttemptsUsed and attemptsByStep only by recording
\* the word entered, of the length of the active row and not its target
\* word, on the active row, which adds one to totalAttemptsUsed; ENTER on
\* such a word does so
CountsWrongFullLength(p, q) ==
  LET guess == ToUpperCase(Trim(p.inputValue))
      wrong == Len(guess) = expectedLength(p) /\ guess # targetWord(p)
  IN  /\ wrong /\ q.inputValue = <<>> =>
           q.totalAttemptsUsed = p.totalAttemptsUsed + 1
      /\ q.totalAttemptsUsed # p.totalAttemptsUsed \/ q.attemptsByStep # p.attemptsByStep =>
           /\ wrong /\ q.inputValue = <<>>
           /\ q.totalAttemptsUsed = p.totalAttemptsUsed + 1
           /\ q.attemptsByStep =
                [p.attemptsByStep EXCEPT ![currentStep(p) + 1] = Append(@, guess)]

\* C32: in src/src/App.jsx, starting from an empty round, totalAttemptsUsed
\* equals the number of wrong full-length guesses submitted across all rows
\* and the total number of entries in attemptsByStep, never exceeds
\* MAX_RETRIES (3), and isLockedOut is true exactly when it has reached 3; a
\* guess of the wrong length or a correct guess leaves totalAttemptsUsed and
\* attemptsByStep unchanged.
C32_TotalAttemptsCounted ==
  /\ [](page.version = "App" => MAX_RETRIES(page.version) = 3)
  /\ []((/\ page.version = "App"
          /\ page.event = "load"
          /\ page.mode = "daily"
          /\ page.nights = 0) => TotalIsAttemptsRecorded(page))
  /\ [][(/\ page.version = "App"
         /\ Settled(page)
         /\ page'.event = "key"
         /\ TotalIsAttemptsRecorded(page)) =>
          TotalIsAttemptsRecorded(page') /\ CountsWrongFullLength(page, page')]_vars

\* the third wrong guess was entered in the third row, after one in each of
\* the rows before, and the round is locked
C32_Witness ==
  /\ page.version = "App"
  /\ Len(page.guesses) = 2
  /\ \A step \in 1..3 : Len(page.attemptsByStep[step]) = 1
  /\ page.totalAttemptsUsed = 3
  /\ page.isLockedOut
  /\ page.event = "key"

\* what loadStoredState makes, for the active puzzle, of what the effect that
\* saves the state has just written
SavedThenLoaded(p) ==
  loadStoredState(p.version, p.activePuzzleDate, puzzle(p), p.mode, <<Saved(p)>>)

\* the round that was saved is the round that is loaded
RoundTrip(p) ==
  /\ SavedThenLoaded(p).guesses = p.guesses
  /\ SavedThenLoaded(p).attemptsByStep = p.attemptsByStep
  /\ SavedThenLoaded(p).lockedOut = p.isLockedOut
  /\ p.version = "App" => SavedThenLoaded(p).totalAttempts = p.totalAttemptsUsed

\* C33: saving then loading a round is a round trip: for every state
\* reachable by play on a puzzle in a mode, the value written by the
\* persistence effect, read back by loadStoredState for that puzzle and
\* mode, yields the same guesses, the same wrong words per row, the same
\* lockout flag and, in App.jsx, the same totalAttempts.
C33_SaveLoadRoundTrip ==
  (Settled(page) /\ HasPuzzle(page) /\ IsPrefixOfTargets(page)) =>
    /\ page.storage = <<Saved(page)>>
    /\ RoundTrip(page)

\* a round with a guess and two wrong words in different rows, just saved
C33_Witness ==
  /\ Settled(page)
  /\ HasPuzzle(page)
  /\ page.event = "key"
  /\ Len(page.guesses) = 1
  /\ Len(page.attemptsByStep[1]) = 1
  /\ Len(page.attemptsByStep[2]) = 1
  /\ page.storage = <<Saved(page)>>

(***************************************************************************)
(* loadStoredState on what localStorage may hold                           *)
(***************************************************************************)
\* a stored state and what it is with another mode, without puzzleDate, with
\* the date of another day alone, and with another startWord
StoredVariants(stored) ==
  {stored,
   [stored EXCEPT !.mode = "weekly"],
   [stored EXCEPT !.puzzleDate = <<>>],
   [stored EXCEPT !.puzzleDate = <<>>,
                  !.date = getLocalDateString([y |-> 2024, m |-> 3, d |-> 1])],
   [stored EXCEPT !.startWord = SubSeq(@, 2, 7) \o <<@[1]>>]}

\* what localStorage holds under STORAGE_KEY when loadStoredState is called:
\* nothing, text that is not JSON, or one of those states
StoredValues ==
  {<<>>, <<Unparseable>>}
    \cup {<<variant>> : variant \in UNION {StoredVariants(stored) :
                          stored \in ForeignStates("daily") \cup ForeignStates("random")}}

\* loadStoredState(puzzleDate, puzzle, mode) of either version, once, for a
\* puzzle of the book; call.seed holds the arguments, call.word what is
\* stored and call.result what was returned
CallLoadStoredState ==
  \E version \in Versions, mode \in {"daily", "random"},
     requested \in Range(NORMALIZED_PUZZLES), raw \in StoredValues :
    /\ call = NoCall
    /\ call' = [op |-> "loadStoredState", word |-> raw,
                seed |-> [version |-> version, mode |-> mode, puzzle |-> requested],
                result |-> loadStoredState(version, requested.date, requested, mode, raw),
                again |-> FALSE]
    /\ UNCHANGED <<callFrame, nextWordCache, solvableMemo, seen>>

SpecStored == InitExample /\ [][CallLoadStoredState]_vars

\* the stored value is not there, is not JSON, or is of another mode, date
\* or startWord than asked for
NotOfThePuzzle(raw, mode, requested) ==
  \/ raw = <<>>
  \/ raw = <<Unparseable>>
  \/ (IF raw[1].mode = "random" THEN "random" ELSE "daily") # mode
  \/ (IF raw[1].puzzleDate # <<>> THEN raw[1].puzzleDate ELSE raw[1].date)
       # requested.date
  \/ raw[1].startWord # requested.startWord

\* the number of attempts returned is within the retry cap: that of all rows
\* in App.jsx, that of each row in the later version
WithinRetryCap(version, loaded) ==
  IF version = "App"
  THEN /\ loaded.totalAttempts <= 3
       /\ Len(loaded.attemptsByStep[1]) + Len(loaded.attemptsByStep[2])
            + Len(loaded.attemptsByStep[3]) + Len(loaded.attemptsByStep[4]) <= 3
  ELSE \A step \in 1..4 : Len(loaded.attemptsByStep[step]) <= 2

\* C34: loadStoredState returns the empty round whenever the stored value is
\* absent, unparseable, or its mode, puzzle date or startWord differs from
\* the requested puzzle; for any other stored content the returned guesses
\* are a prefix of the puzzle's targetWords, no returned attempt equals its
\* row's target, the attempt count respects the retry cap, and a fully
\* solved round is never returned as locked out.
C34_LoadIsGuarded ==
  call.op = "loadStoredState" =>
    /\ NotOfThePuzzle(call.word, call.seed.mode, call.seed.puzzle) =>
         call.result = createEmptyState
    /\ Len(call.result.guesses) <= 4
    /\ \A i \in 1..Len(call.result.guesses) :
         call.result.guesses[i] = call.seed.puzzle.targetWords[i]
    /\ \A step \in 1..4 :
         \A k \in 1..Len(call.result.attemptsByStep[step]) :
           call.result.attemptsByStep[step][k] # call.seed.puzzle.targetWords[step]
    /\ WithinRetryCap(call.seed.version, call.result)
    /\ Len(call.result.guesses) = 4 => ~call.result.lockedOut

\* a round stored as solved and locked, with more guesses than rows, was
\* returned solved and not locked
C34_Witness ==
  /\ call.op = "loadStoredState"
  /\ ~NotOfThePuzzle(call.word, call.seed.mode, call.seed.puzzle)
  /\ Len(call.word[1].guesses) = 5
  /\ call.word[1].lockedOut
  /\ Len(call.result.guesses) = 4
  /\ ~call.result.lockedOut

\* ENTER on the target word of a row after the first sets pendingAdvance and
\* leaves guesses; while pendingAdvance is set a key changes nothing; the
\* timer appends the pending guess once and clears pendingAdvance
AdvancesAfterDelay(p, q) ==
  /\ (/\ Settled(p)
      /\ ~isInputLocked(p)
      /\ currentStep(p) >= 1
      /\ ToUpperCase(Trim(p.inputValue)) = targetWord(p)
      /\ q.event = "key"
      /\ q.inputValue = <<>>) =>
       /\ q.pendingAdvance =
            <<[stepIndex |-> currentStep(p), guess |-> targetWord(p)]>>
       /\ q.guesses = p.guesses
  /\ (Settled(p) /\ isAdvancing(p) /\ q.event = "key") =>
       /\ q.guesses = p.guesses
       /\ q.attemptsByStep = p.attemptsByStep
       /\ q.inputValue = p.inputValue
       /\ q.isLockedOut = p.isLockedOut
       /\ q.pendingAdvance = p.pendingAdvance
  /\ (Settled(p) /\ isAdvancing(p) /\ q.event = "timer") =>
       /\ q.guesses = Append(p.guesses, p.pendingAdvance[1].guess)
       /\ q.pendingAdvance = <<>>
       /\ Settled(q)

\* once the active puzzle has changed the timer does not fire, and the round
\* that is rendered next is the one that was loaded, without the pending
\* guess
CancelledByPuzzleChange(p, q) ==
  (~Settled(p) /\ isAdvancing(p)) =>
    /\ q.event # "timer"
    /\ q.event = "load" /\ q.nights = p.nights =>
         /\ q.pendingAdvance = <<>>
         /\ q.guesses = LoadedRound([q EXCEPT !.storage = <<>>]).guesses

\* C35: in the later version a correct guess on any row after the first sets
\* pendingAdvance; while it is set every game key is ignored; when the delay
\* elapses the pending guess is appended to guesses exactly once and
\* pendingAdvance is cleared; if the active puzzle changes or the round is
\* reseeded first, the timer is cancelled and the pending guess is never
\* appended to the new round's guesses.
C35_PendingAdvance ==
  [][page.version = "part_001" =>
       /\ AdvancesAfterDelay(page, page')
       /\ CancelledByPuzzleChange(page, page')]_vars

\* what remains when the active puzzle does not change while a guess is
\* pending
C35_AdvanceOnTheSamePuzzle ==
  [][page.version = "part_001" => AdvancesAfterDelay(page, page')]_vars

\* no guess, no wrong guess and no lockout
IsEmptyRound(guesses, attemptsByStep, lockedOut) ==
  /\ guesses = <<>>
  /\ attemptsByStep \in {<<>>, <<createEmptyAttemptsByStep>>, createEmptyAttemptsByStep}
  /\ ~lockedOut

\* syncDate in daily mode makes currentDate and activePuzzleDate the new date
DailyRolloverSetsDates(p, q) ==
  (p.mode = "daily" /\ Settled(p) /\ q.event = "change") =>
    /\ getLocalDateString(p.today) # p.currentDate
    /\ q.currentDate = getLocalDateString(p.today)
    /\ q.activePuzzleDate = getLocalDateString(p.today)

\* after it the stored round holds nothing of the day before
DailyRolloverClearsStorage(p, q) ==
  (p.mode = "daily" /\ Settled(p) /\ q.event = "change") =>
    \/ q.storage = <<>>
    \/ IsEmptyRound(q.storage[1].guesses, q.storage[1].attemptsByStep,
                    q.storage[1].lockedOut)

\* the round of the new day, when it is rendered, is empty
NothingCarriedOver(p, q) ==
  (p.mode = "daily" /\ ~Settled(p) /\ q.event = "load") =>
    /\ IsEmptyRound(q.guesses, q.attemptsByStep, q.isLockedOut)
    /\ q.pendingAdvance = <<>>

\* syncDate in random mode changes currentDate only: the round and the
\* active puzzle stay, and the stored round but for its date
RandomRolloverKeepsRound(p, q) ==
  (p.mode = "random" /\ q.event = "sync") =>
    /\ getLocalDateString(p.today) # p.currentDate
    /\ q = [p EXCEPT !.currentDate = getLocalDateString(p.today),
                     !.event = "sync",
                     !.storage = IF HasPuzzle(p)
                                 THEN <<[Saved(p) EXCEPT !.date = getLocalDateString(p.today)]>>
                                 ELSE <<>>]
    /\ HasPuzzle(p) => p.storage = <<Saved(p)>>

\* C36: in daily mode, whenever syncDate (interval tick or window focus)
\* observes a local date different from currentDate, the stored round is
\* cleared and both activePuzzleDate and currentDate become the new date, so
\* the previous day's guesses, attempts and lockout are never carried into
\* the new day's round; in random mode only currentDate changes and the
\* active puzzle and stored round are left untouched.
C36_DateRollover ==
  [][/\ DailyRolloverSetsDates(page, page')
     /\ DailyRolloverClearsStorage(page, page')
     /\ NothingCarriedOver(page, page')
     /\ RandomRolloverKeepsRound(page, page')]_vars

\* what holds of it: the dates, the random mode, and that the round which
\* the effect loads for the new day, from the storage syncDate cleared, is
\* the empty one
C36_RolloverLoadsEmptyRound ==
  [][/\ DailyRolloverSetsDates(page, page')
     /\ RandomRolloverKeepsRound(page, page')
     /\ (page.mode = "daily" /\ Settled(page) /\ page'.event = "change") =>
          page'.rerender = <<[loaded |-> createEmptyState, queued |-> <<>>]>>]_vars

\* the stored round is named after the active puzzle and, once the round is
\* rendered, it is that round
StoredUnderActivePuzzle(p) ==
  p.storage # <<>> =>
    /\ HasPuzzle(p)
    /\ p.storage[1].puzzleDate = p.activePuzzleDate
    /\ p.storage[1].startWord = puzzle(p).startWord
    /\ Settled(p) => p.storage = <<Saved(p)>>

\* a step that makes another puzzle the active one, by New Puzzle or by a
\* change of date, writes nothing of the round that was played on the
\* puzzle before
WritesNoOtherProgress(p, q) ==
  (q.event = "change" /\ q.activePuzzleDate # p.activePuzzleDate /\ q.storage # <<>>) =>
    IsEmptyRound(q.storage[1].guesses, q.storage[1].attemptsByStep,
                 q.storage[1].lockedOut)

\* C37: whenever local storage holds a saved round, its guesses, attempts
\* and lockout flag were produced by play on the puzzle named by its
\* puzzleDate and startWord: across New Puzzle, round reseed and date
\* rollover, the persistence effect never writes one puzzle's progress or
\* lockout under another puzzle's date.
C37_StoredRoundIsOfItsPuzzle ==
  /\ [](StoredUnderActivePuzzle(page))
  /\ [][WritesNoOtherProgress(page, page')]_vars

\* what holds of it: the stored round carries the date and startWord of the
\* active puzzle, and is the round on the page whenever no render is waiting
C37_StoredRoundWhenRendered ==
  [](StoredUnderActivePuzzle(page))

(***************************************************************************)
(* pickRandomPuzzleDate, statement by statement                            *)
(***************************************************************************)
\* the most puzzles of a book
MaxDates == 3

\* PUZZLE_DATES: the dates of the records of a book in the order of the
\* file, which may hold a date twice
PuzzleDateLists ==
  UNION {[1..n -> {getLocalDateString([y |-> 2024, m |-> 2, d |-> 28]),
                   getLocalDateString([y |-> 2024, m |-> 2, d |-> 29])}] :
           n \in 0..MaxDates}

\* the values of Math.floor(Math.random() * length)
RandomIndexes(length) == 0..(length - 1)

\* the call pickRandomPuzzleDate(excludeDate) is made; call.seed holds
\* PUZZLE_DATES, call.word excludeDate and call.result choice
InitPick ==
  /\ words = [i \in 1..Len(ExampleWords) |->
                [isString |-> TRUE, chars |-> ExampleWords[i]]]
  /\ options = [startDate |-> [y |-> 2024, m |-> 2, d |-> 28], days |-> 1]
  /\ now = 1
  /\ earlier = NoRun
  /\ seen = EmptyMap
  /\ page = PageClosed
  /\ Fresh
  /\ \E dates \in PuzzleDateLists :
       \E excludeDate \in Range(dates) \cup {<<>>} :
         call = [op |-> "pickRandomPuzzleDate", word |-> excludeDate,
                 seed |-> dates, result |-> <<>>, again |-> FALSE]

\* the two tests of PUZZLE_DATES.length, and let choice = excludeDate
PickEnter ==
  /\ call.op = "pickRandomPuzzleDate"
  /\ call' = IF Len(call.seed) = 0
             THEN [call EXCEPT !.op = "return", !.result = <<>>]
             ELSE IF Len(call.seed) = 1
             THEN [call EXCEPT !.op = "return", !.result = call.seed[1]]
             ELSE [call EXCEPT !.op = "while", !.result = call.word]
  /\ UNCHANGED <<callFrame, nextWordCache, solvableMemo, seen>>

\* the body of while (choice === excludeDate), for one value of index;
\* call.again changes with every pass of the loop
PickDrawIndex(index) ==
  /\ call.op = "while"
  /\ call.result = call.word
  /\ index \in RandomIndexes(Len(call.seed))
  /\ call' = [call EXCEPT !.result = call.seed[index + 1], !.again = ~@]
  /\ UNCHANGED <<callFrame, nextWordCache, solvableMemo, seen>>

PickDraw == \E index \in RandomIndexes(MaxDates) : PickDrawIndex(index)

\* the loop is left: return choice
PickReturn ==
  /\ call.op = "while"
  /\ call.result # call.word
  /\ call' = [call EXCEPT !.op = "return"]
  /\ UNCHANGED <<callFrame, nextWordCache, solvableMemo, seen>>

NextPick == PickEnter \/ PickDraw \/ PickReturn

\* The function runs on, and Math.random is fair: as long as the loop goes
\* on, no index is withheld for ever.
SpecPick ==
  /\ InitPick
  /\ [][NextPick]_vars
  /\ WF_vars(PickEnter)
  /\ \A index \in RandomIndexes(MaxDates) : WF_vars(PickDrawIndex(index))
  /\ WF_vars(PickReturn)

\* what pickRandomPuzzleDate returns: '' without puzzles, the date of the
\* only puzzle, else a loaded date that is not excludeDate
ReturnsAnotherDate ==
  call.op = "return" =>
    IF Len(call.seed) = 0 THEN call.result = <<>>
    ELSE IF Len(call.seed) = 1 THEN call.result = call.seed[1]
    ELSE call.result \in Range(call.seed) /\ call.result # call.word

C38_ReturnsWhenAnotherDateIsLoaded ==
  /\ []ReturnsAnotherDate
  /\ (Len(call.seed) < 2 \/ Range(call.seed) \ {call.word} # {}) ~> call.op = "return"

(***************************************************************************)
(* stringToSeed on date strings                                            *)
(***************************************************************************)
\* the date strings stringToSeed is called on: four days of every month of
\* three years, one of them written with three digits
DateStrings ==
  {getLocalDateString([y |-> y, m |-> m, d |-> d]) :
     y \in {999, 2024, 2025}, m \in 1..12, d \in {1, 9, 10, 28}}

\* stringToSeed(value), lines 36-42, twice on one string; call.word holds the
\* string and call.result the seed
CallStringToSeed ==
  \E value \in DateStrings :
    /\ call.op \in {"none", "stringToSeed"}
    /\ call.word \in {<<>>, value}
    /\ ~call.again
    /\ call' = [op |-> "stringToSeed", word |-> value, seed |-> <<>>,
                result |-> stringToSeed(value),
                again |-> value \in DOMAIN seen]
    /\ Remember(value, stringToSeed(value))
    /\ UNCHANGED <<callFrame, nextWordCache, solvableMemo>>

SpecSeed == InitExample /\ [][CallStringToSeed]_vars

\* h * 31 + code modulo 2^32, for h given by its two 16-bit halves, in
\* integers: the lower half with its carry into the upper
HashStep(h, code) ==
  <<(h[1] * 31 + (h[2] * 31 + code) \div 65536) % 65536,
    (h[2] * 31 + code) % 65536>>

\* the base-31 polynomial hash of the character codes modulo 2^32, from 0
RECURSIVE PolynomialHash(_)
PolynomialHash(codes) ==
  IF codes = <<>> THEN <<0, 0>>
  ELSE HashStep(PolynomialHash(SubSeq(codes, 1, Len(codes) - 1)), codes[Len(codes)])

\* C39: for every date string s, stringToSeed(s) is an integer in [0, 2^32)
\* equal to the base-31 polynomial hash of the character codes of s computed
\* modulo 2^32 (h := (h*31 + code) mod 2^32 per character, starting from 0),
\* so equal date strings give equal seeds.
C39_SeedIsPolynomialHash ==
  call.op = "stringToSeed" =>
    /\ call.result \in (0..65535) \X (0..65535)
    /\ call.result = PolynomialHash(call.word)
    /\ call.again => call.result = seen[call.word]

\* a date string was hashed a second time, to a seed of 2^31 or more
C39_Witness ==
  /\ call.op = "stringToSeed"
  /\ call.again
  /\ Len(call.word) = 10
  /\ call.result[1] >= 32768
=============================================================================
